---- MODULE Spec2Model ----
(***************************************************************************)
(* Model of gcp-monorepo-secret-manager: GcpMonorepoSecretManager          *)
(* (upload, post-upload cleanup, manual cleanup, download and set) driving *)
(* the Secret Manager version store, by one invocation or by two at the    *)
(* same time; ConfigManager (construction from the configuration file,     *)
(* validation and reading of the delete policy); the command line's        *)
(* --add-service and --remove-service; and loadConfig (the .env file of a  *)
(* service at start-up).                                                   *)
(*                                                                         *)
(* The clock is a pair: whole seconds since the epoch and the milliseconds *)
(* within the second.  A version's createTime is the store clock when the  *)
(* version was added (seconds and nanos).  Date arithmetic is taken in UTC *)
(* (setDate(getDate() - n) moves the instant back by n * 86400000 ms).     *)
(***************************************************************************)
EXTENDS Integers, Sequences, FiniteSets, TLC

\* ------------------------------------------------------------------------
\* Bounds of the model
\* ------------------------------------------------------------------------
MaxHist == 3        \* versions in a pre-existing history (SpecCleanup)
MaxStored == 3      \* versions the store may hold, all secrets together (Spec)
MaxCount == 2       \* largest maxVersions drawn for the policy
MaxAge == 1         \* largest maxAgeDays drawn for the policy
MaxDay == 3         \* last day the clock reaches

\* ------------------------------------------------------------------------
\* Program constants
\* ------------------------------------------------------------------------
DaySeconds == 86400
DefaultMaxVersions == 10
DefaultMaxAgeDays == 30

Procs == {1, 2}

LiveStates == {"ENABLED", "DISABLED"}
VersionStates == {"ENABLED", "DISABLED", "DESTROYED", "STATE_UNSPECIFIED"}

\* ------------------------------------------------------------------------
\* Generic sequence helpers
\* ------------------------------------------------------------------------
Range(s) == {s[i] : i \in 1..Len(s)}

Reverse(s) == [i \in 1..Len(s) |-> s[Len(s) + 1 - i]]

\* Array.prototype.slice(n)
Slice(s, n) == SubSeq(s, n + 1, Len(s))

\* Array.prototype.splice(-1, 1): removes the last element, if any
SpliceLast(s) == IF Len(s) = 0 THEN s ELSE SubSeq(s, 1, Len(s) - 1)

\* ------------------------------------------------------------------------
\* Delete policy (ConfigManager.getDeletePolicy, types DeletePolicy)
\* A policy is a JS object with optional keys: a function whose domain is
\* a subset of {maxVersions, maxAgeDays, enabled}.  config.deletePolicy is a set holding the
\* configured policy, or the empty set when the key is absent.
\* ------------------------------------------------------------------------
\* Mutant: the default keeps five versions
DefaultDeletePolicy_KeepsFive ==
    [maxVersions |-> 5, maxAgeDays |-> DefaultMaxAgeDays, enabled |-> TRUE]

DefaultDeletePolicy ==
    [maxVersions |-> DefaultMaxVersions, maxAgeDays |-> DefaultMaxAgeDays, enabled |-> TRUE]

getDeletePolicy(cfg) ==
    IF cfg.deletePolicy = {} THEN DefaultDeletePolicy
    ELSE CHOOSE p \in cfg.deletePolicy : TRUE

Has(p, f) == f \in DOMAIN p

\* Mutant: the enabled flag is not consulted
PolicyEnabled_Always(p) == TRUE

\* !deletePolicy.enabled is false only for enabled === true
PolicyEnabled(p) == Has(p, "enabled") /\ p["enabled"]

\* deletePolicy.maxVersions && deletePolicy.maxVersions > 0
CountRuleOn(p) == Has(p, "maxVersions") /\ p["maxVersions"] # 0 /\ p["maxVersions"] > 0

\* deletePolicy.maxAgeDays && deletePolicy.maxAgeDays > 0
AgeRuleOn(p) == Has(p, "maxAgeDays") /\ p["maxAgeDays"] # 0 /\ p["maxAgeDays"] > 0

\* ------------------------------------------------------------------------
\* The configuration file as JSON.parse returns it, and ConfigManager's
\* validation of its deletePolicy.  A JSON value is kept with the readings
\* the code takes of it: a number n is kept as twice = 2 * n (so that
\* halves can be told from integers), a boolean as flag.
\* ------------------------------------------------------------------------
JUndefined == [kind |-> "undefined", twice |-> 0, flag |-> FALSE]   \* key absent

JNull == [kind |-> "null", twice |-> 0, flag |-> FALSE]

JBool(b) == [kind |-> "boolean", twice |-> 0, flag |-> b]

JNumber(twice) == [kind |-> "number", twice |-> twice, flag |-> FALSE]

\* The string "1"
JString == [kind |-> "string", twice |-> 2, flag |-> TRUE]

PolicyFields == {"maxVersions", "maxAgeDays", "enabled"}

\* value < 0: undefined converts to NaN, null and false to 0, true to 1
LessThanZero(v) == v.kind \in {"number", "string"} /\ v.twice < 0

\* Number.isInteger(value)
IsInteger(v) == v.kind = "number" /\ v.twice % 2 = 0

\* Mutant: the policy is not validated
validateDeletePolicy_Accepts(policy) == TRUE

\* validateDeletePolicy: TRUE when it returns, FALSE when it throws
validateDeletePolicy(policy) ==
    /\ ~(/\ policy.maxVersions.kind # "undefined"
         /\ (LessThanZero(policy.maxVersions) \/ ~IsInteger(policy.maxVersions)))
    /\ ~(/\ policy.maxAgeDays.kind # "undefined"
         /\ (LessThanZero(policy.maxAgeDays) \/ ~IsInteger(policy.maxAgeDays)))
    /\ ~(policy.enabled.kind # "undefined" /\ policy.enabled.kind # "boolean")

\* validateConfig, for a file whose serviceAccountPaths, projectIds and
\* services are in order: if (deletePolicy) validateDeletePolicy(deletePolicy)
validateConfig(file) == \A policy \in file.deletePolicy : validateDeletePolicy(policy)

\* The number a limit is used as: slice() and setDate() take its integer part
NumberRead(v) ==
    IF v.kind \in {"number", "string"}
    THEN (IF v.twice >= 0 THEN v.twice \div 2 ELSE 0 - ((0 - v.twice) \div 2))
    ELSE IF v.kind = "boolean" /\ v.flag THEN 1 ELSE 0

\* The truth value !deletePolicy.enabled negates
Truthy(v) ==
    \/ v.kind = "boolean" /\ v.flag
    \/ v.kind = "number" /\ v.twice # 0
    \/ v.kind = "string"

\* this.config.deletePolicy as the manager reads it: the keys of the file
PolicyOf(policy) ==
    [f \in {k \in PolicyFields : policy[k].kind # "undefined"} |->
        IF f = "enabled" THEN Truthy(policy[f]) ELSE NumberRead(policy[f])]

\* A file that parses to the configuration cfg
RawOf(p) ==
    [f \in PolicyFields |->
        IF f \notin DOMAIN p THEN JUndefined
        ELSE IF f = "enabled" THEN JBool(p[f]) ELSE JNumber(2 * p[f])]

FileOf(cfg) ==
    [services |-> cfg.services, deletePolicy |-> {RawOf(p) : p \in cfg.deletePolicy}]

\* ------------------------------------------------------------------------
\* cleanupSecretVersions: the synchronous computation between the listing
\* and the first destroy request
\* ------------------------------------------------------------------------
\* A Date is kept as [seconds, millis] and never multiplied out to
\* milliseconds.  The code builds a version's Date from createTime.seconds
\* alone (Number(seconds) * 1000): createTime.nanos is not read.
\* createTime?.seconds ? Number(seconds) * 1000 : 0   (the sort key)
TimeOf(v) == IF v.seconds # 0 THEN v.seconds ELSE 0

\* new Date(); setDate(getDate() - maxAgeDays)
Cutoff(clock, p) ==
    [seconds |-> clock.seconds - p["maxAgeDays"] * DaySeconds, millis |-> clock.millis]

\* Mutant: the state filter lets every version through
IsLive_Any(v) == TRUE

IsLive(v) == v.state = "ENABLED" \/ v.state = "DISABLED"

\* One step of the stable sort: v goes after every element whose key is
\* not smaller (comparator timeB - timeA, Array.prototype.sort is stable).
InsertNewestFirst(sorted, v) ==
    LET k == Cardinality({i \in 1..Len(sorted) : TimeOf(sorted[i]) >= TimeOf(v)})
    IN  SubSeq(sorted, 1, k) \o <<v>> \o SubSeq(sorted, k + 1, Len(sorted))

RECURSIVE SortNewestFirst(_)
SortNewestFirst(s) ==
    IF s = <<>> THEN <<>>
    ELSE InsertNewestFirst(SortNewestFirst(SubSeq(s, 1, Len(s) - 1)), s[Len(s)])

\* Mutant: the sort puts the oldest version first
FilterAndSort_OldestFirst(versions) ==
    Reverse(SortNewestFirst(SelectSeq(versions, IsLive)))

\* versions.filter(live).sort(newest first)
FilterAndSort(versions) == SortNewestFirst(SelectSeq(versions, IsLive))

\* Mutant: the count rule keeps one version too many
ExcessVersions_OffByOne(sorted, p) ==
    IF CountRuleOn(p) THEN Slice(sorted, p["maxVersions"] + 1) ELSE <<>>

\* sortedVersions.slice(maxVersions), pushed when the count rule is on
ExcessVersions(sorted, p) ==
    IF CountRuleOn(p) THEN Slice(sorted, p["maxVersions"]) ELSE <<>>

\* Mutant: the age comparison is <= instead of <
IsOld_Inclusive(v, clock, p) ==
    /\ v.seconds # 0
    /\ \/ v.seconds < Cutoff(clock, p).seconds
       \/ v.seconds = Cutoff(clock, p).seconds

\* versionDate < cutoffDate, versionDate being seconds * 1000 ms
IsOld(v, clock, p) ==
    /\ v.seconds # 0
    /\ \/ v.seconds < Cutoff(clock, p).seconds
       \/ v.seconds = Cutoff(clock, p).seconds /\ 0 < Cutoff(clock, p).millis

\* sortedVersions.filter(versionDate < cutoffDate)
OldVersions(sorted, clock, p) ==
    IF AgeRuleOn(p) THEN SelectSeq(sorted, LAMBDA v : IsOld(v, clock, p)) ELSE <<>>

\* Mutant: the age rule pushes without looking for the version
PushIfAbsent_NoDedup(acc, v) == Append(acc, v)

\* if (!versionsToDestroy.find(v => v.name === oldVersion.name)) push
PushIfAbsent(acc, v) ==
    IF \E i \in 1..Len(acc) : acc[i].name = v.name THEN acc ELSE Append(acc, v)

RECURSIVE PushAllAbsent(_, _)
PushAllAbsent(acc, olds) ==
    IF olds = <<>> THEN acc
    ELSE PushAllAbsent(PushIfAbsent(acc, Head(olds)), Tail(olds))

\* versionsToDestroy as it stands before the "keep at least 1" step
MarkedVersions(sorted, clock, p) ==
    PushAllAbsent(ExcessVersions(sorted, p), OldVersions(sorted, clock, p))

\* Mutant: the keep-one step is missing
KeepAtLeastOne_NoFloor(marked, sorted) == marked

\* Mutant: the keep-one step compares with > instead of >=
KeepAtLeastOne_Strict(marked, sorted) ==
    IF Len(marked) > Len(sorted) THEN SpliceLast(marked) ELSE marked

\* if (versionsToDestroy.length >= sortedVersions.length) splice(-1, 1)
KeepAtLeastOne(marked, sorted) ==
    IF Len(marked) >= Len(sorted) THEN SpliceLast(marked) ELSE marked

\* The destroy list of one cleanup of a listing (lines 178-221)
DestroyList(listing, clock, p) ==
    IF Len(listing) <= 1 THEN <<>>
    ELSE KeepAtLeastOne(MarkedVersions(FilterAndSort(listing), clock, p),
                        FilterAndSort(listing))

\* ------------------------------------------------------------------------
\* Configuration (.secrets-config as ConfigManager holds it)
\* ------------------------------------------------------------------------
ServiceConfigs ==
    <<[name |-> "app", envPath |-> ".environments/.app.{env}.env",
       targetPath |-> "web/app/.env", secretPrefix |-> "app-env-vars"],
      [name |-> "api", envPath |-> ".environments/.api.{env}.env",
       targetPath |-> "services/api/.env", secretPrefix |-> "api-env-vars"]>>

\* getServiceNames
getServiceNames(cfg) == [i \in 1..Len(cfg.services) |-> cfg.services[i].name]

\* getServiceByName(name) !== undefined
ServiceKnown(cfg, name) == \E i \in 1..Len(cfg.services) : cfg.services[i].name = name

getServiceByName(cfg, name) ==
    cfg.services[CHOOSE i \in 1..Len(cfg.services) :
                    /\ cfg.services[i].name = name
                    /\ \A j \in 1..(i - 1) : cfg.services[j].name # name]

\* getSecretName: `${secretPrefix}_ENV_FILE`, kept as the pair
getSecretName(cfg, name) == <<getServiceByName(cfg, name).secretPrefix, "_ENV_FILE">>

getEnvPath(cfg, name) == getServiceByName(cfg, name).envPath

SecretNames == {<<ServiceConfigs[i].secretPrefix, "_ENV_FILE">> : i \in 1..Len(ServiceConfigs)}

EnvPaths == {ServiceConfigs[i].envPath : i \in 1..Len(ServiceConfigs)}

\* The secret of the first service
AppSecret == getSecretName([services |-> ServiceConfigs], "app")

\* ------------------------------------------------------------------------
\* The environment loadConfig works on
\* ------------------------------------------------------------------------
MaxRequired == 2    \* entries of options.requiredEnvVars

VarNames == {"ENV", "REQUIRED_VAR", "PORT"}

Unset == "<unset>"

\* A variable is absent, set to the empty string, or set to a value
EnvValues == {Unset, "", "STG"}

NoError == [message |-> "", names |-> <<>>]

IdleLoader ==
    [pc |-> "idle", requiredEnvVars |-> <<>>, existed |-> FALSE, clientCreated |-> FALSE,
     accessCalls |-> 0, writes |-> 0, response |-> "none", result |-> "none",
     error |-> NoError]

\* ------------------------------------------------------------------------
\* State
\* ------------------------------------------------------------------------
VARIABLES
    processEnv,        \* process.env: variable name -> value, or Unset
    dotEnvFile,        \* the file at resolvedEnvPath: {} or {its content}
    loader,            \* loadConfig's invocation: position, options, outcome
    configFile,        \* .secrets-config as JSON.parse returns it
    manager,           \* "none", "constructed" or "failed" (constructor threw)
    config,            \* the loaded configuration: services, deletePolicy
    now,               \* the clock, seconds since the epoch
    nowMillis,         \* the clock, milliseconds within the second
    store,             \* secret name -> [exists, versions (creation order)]
    files,             \* path -> content of the file, or NoFile
    pc,                \* per caller: the store call it awaits, or "idle"
    opName,            \* per caller: "uploadEnv", "cleanupVersions" or "none"
    todo,              \* per caller: services still to process, current first
    result,            \* per caller: "none", "resolved" or "rejected"
    serviceName,       \* per caller: the argument of the operation
    envContent,        \* per caller: content read from the env file
    versions,          \* per caller: cleanup's listing
    sortedVersions,    \* per caller: cleanup's sortedVersions
    markedVersions,    \* per caller: versionsToDestroy before the keep-one step
    versionsToDestroy, \* per caller: versionsToDestroy of the destroy loop
    idx,               \* per caller: position of the destroy loop
    calls              \* per caller: store calls of the current operation

vars == <<processEnv, dotEnvFile, loader, configFile, manager, config, now, nowMillis, store, files, pc, opName, serviceName, todo, result, envContent,
          versions, sortedVersions, markedVersions, versionsToDestroy, idx, calls>>

\* State the manager's operations leave alone
otherVars == <<processEnv, dotEnvFile, loader, configFile, manager, nowMillis>>

\* What new Date() returns
Clock == [seconds |-> now, millis |-> nowMillis]

cleanupLocals == <<versions, sortedVersions, markedVersions, versionsToDestroy, idx>>

callerArgs == <<opName, serviceName>>

NoFile == "<no file>"

Call(api, secret, version, ok) ==
    [api |-> api, secret |-> secret, version |-> version, ok |-> ok]

\* listSecretVersions returns the versions newest first
Listing(secret) == Reverse(store[secret].versions)

CurrentSecret(p) == getSecretName(config, Head(todo[p]))

Logged(p, c) == calls' = [calls EXCEPT ![p] = Append(@, c)]

\* The operation of caller p ends: its promise resolves or rejects.
Finish(p, res) ==
    /\ pc' = [pc EXCEPT ![p] = "done"]
    /\ result' = [result EXCEPT ![p] = res]
    /\ todo' = [todo EXCEPT ![p] = <<>>]

\* Caller p goes on to await the store call `api`, services rest left.
Await(p, api, rest) ==
    /\ pc' = [pc EXCEPT ![p] = api]
    /\ result' = [result EXCEPT ![p] = "none"]
    /\ todo' = [todo EXCEPT ![p] = rest]

ResetCleanupLocals(p) ==
    /\ versions' = [versions EXCEPT ![p] = <<>>]
    /\ sortedVersions' = [sortedVersions EXCEPT ![p] = <<>>]
    /\ markedVersions' = [markedVersions EXCEPT ![p] = <<>>]
    /\ versionsToDestroy' = [versionsToDestroy EXCEPT ![p] = <<>>]
    /\ idx' = [idx EXCEPT ![p] = 0]

\* ------------------------------------------------------------------------
\* cleanupVersions / cleanupSecretVersions
\* ------------------------------------------------------------------------
\* cleanupVersions' loop over the services in rest, the policy being
\* enabled: each cleanupSecretVersions awaits its listing.
CleanupRest(p, rest) ==
    IF rest = <<>> THEN Finish(p, "resolved")
    ELSE Await(p, "listSecretVersions", rest)

\* cleanupVersions(serviceName), up to its first store call
CallCleanupVersions(p, svc) ==
    /\ manager = "constructed"
    /\ pc[p] = "idle"
    /\ opName' = [opName EXCEPT ![p] = "cleanupVersions"]
    /\ serviceName' = [serviceName EXCEPT ![p] = svc]
    /\ calls' = [calls EXCEPT ![p] = <<>>]
    /\ ResetCleanupLocals(p)
    /\ IF svc # "all" /\ ~ServiceKnown(config, svc)
       THEN Finish(p, "rejected")      \* getSecretName throws
       ELSE IF ~PolicyEnabled(getDeletePolicy(config))
       THEN Finish(p, "resolved")      \* each cleanupSecretVersions returns at once
       ELSE CleanupRest(p, IF svc = "all" THEN getServiceNames(config)
                           ELSE <<svc>>)
    /\ UNCHANGED <<otherVars, config, now, store, files, envContent>>

\* Mutant: a service whose env file is missing ends the loop without an error
UploadRest_SkipsMissing(p, rest) ==
    IF rest = <<>> \/ files[getEnvPath(config, Head(rest))] = NoFile
    THEN Finish(p, "resolved") /\ UNCHANGED envContent
    ELSE /\ Await(p, "getSecret", rest)
         /\ envContent' = [envContent EXCEPT ![p] = files[getEnvPath(config, Head(rest))]]

\* uploadEnv's loop over the services in rest: uploadSingleEnv of the first
\* one up to its getSecret call (a missing env file throws).
UploadRest(p, rest) ==
    IF rest = <<>> THEN Finish(p, "resolved") /\ UNCHANGED envContent
    ELSE IF files[getEnvPath(config, Head(rest))] = NoFile
    THEN Finish(p, "rejected") /\ UNCHANGED envContent
    ELSE /\ Await(p, "getSecret", rest)
         /\ envContent' = [envContent EXCEPT ![p] = files[getEnvPath(config, Head(rest))]]

\* cleanupSecretVersions returns (it never throws) to the loop that called it
ReturnFromCleanup(p) ==
    IF opName[p] = "cleanupVersions"
    THEN CleanupRest(p, Tail(todo[p])) /\ UNCHANGED envContent
    ELSE UploadRest(p, Tail(todo[p]))

\* listSecretVersions resolves: filter, sort, mark, keep one, and issue the
\* first destroy request (lines 173-230)
ListResolve(p) ==
    /\ pc[p] = "listSecretVersions"
    /\ store[CurrentSecret(p)].exists
    /\ Logged(p, Call("listSecretVersions", CurrentSecret(p), 0, TRUE))
    /\ versions' = [versions EXCEPT ![p] = Listing(CurrentSecret(p))]
    /\ LET policy == getDeletePolicy(config)
           sorted == FilterAndSort(versions'[p])
           marked == MarkedVersions(sorted, Clock, policy)
           kept == KeepAtLeastOne(marked, sorted)
       IN  IF Len(versions'[p]) <= 1
           THEN /\ sortedVersions' = [sortedVersions EXCEPT ![p] = <<>>]
                /\ markedVersions' = [markedVersions EXCEPT ![p] = <<>>]
                /\ versionsToDestroy' = [versionsToDestroy EXCEPT ![p] = <<>>]
                /\ idx' = [idx EXCEPT ![p] = 0]
                /\ ReturnFromCleanup(p)
           ELSE /\ sortedVersions' = [sortedVersions EXCEPT ![p] = sorted]
                /\ markedVersions' = [markedVersions EXCEPT ![p] = marked]
                /\ versionsToDestroy' = [versionsToDestroy EXCEPT ![p] = kept]
                /\ IF Len(kept) > 0
                   THEN /\ idx' = [idx EXCEPT ![p] = 1]
                        /\ Await(p, "destroySecretVersion", todo[p])
                        /\ UNCHANGED envContent
                   ELSE /\ idx' = [idx EXCEPT ![p] = 0]
                        /\ ReturnFromCleanup(p)
    /\ UNCHANGED <<otherVars, config, now, store, files, callerArgs>>

\* Mutant: the listing failure is not caught, the operation rejects
ListReject_Rethrows(p) ==
    /\ pc[p] = "listSecretVersions"
    /\ Logged(p, Call("listSecretVersions", CurrentSecret(p), 0, FALSE))
    /\ ResetCleanupLocals(p)
    /\ Finish(p, "rejected")
    /\ UNCHANGED <<otherVars, config, now, store, files, callerArgs, envContent>>

\* Mutant: a listing failure ends the loop over the services
ListReject_SkipsRest(p) ==
    /\ pc[p] = "listSecretVersions"
    /\ Logged(p, Call("listSecretVersions", CurrentSecret(p), 0, FALSE))
    /\ ResetCleanupLocals(p)
    /\ Finish(p, "resolved")
    /\ UNCHANGED <<otherVars, config, now, store, files, callerArgs, envContent>>

\* Mutant: a failed listing is asked for again
ListReject_Retries(p) ==
    /\ pc[p] = "listSecretVersions"
    /\ Len(calls[p]) < 4
    /\ Logged(p, Call("listSecretVersions", CurrentSecret(p), 0, FALSE))
    /\ UNCHANGED <<otherVars, config, now, store, files, callerArgs, pc, todo, result,
                   envContent, cleanupLocals>>

\* listSecretVersions rejects (NOT_FOUND for a missing secret, or any other
\* failure): caught at line 241, logged, cleanupSecretVersions returns
ListReject(p) ==
    /\ pc[p] = "listSecretVersions"
    /\ Logged(p, Call("listSecretVersions", CurrentSecret(p), 0, FALSE))
    /\ ResetCleanupLocals(p)
    /\ ReturnFromCleanup(p)
    /\ UNCHANGED <<otherVars, config, now, store, files, callerArgs>>

\* The store destroys version `name` (a destroyed version stays destroyed)
Destroyed(st, name) ==
    [st EXCEPT ![name[1]].versions =
        [i \in 1..Len(@) |-> IF @[i].name = name
                             THEN [@[i] EXCEPT !.state = "DESTROYED"] ELSE @[i]]]

\* The destroy loop moves past its current version
DestroyNext(p) ==
    IF idx[p] < Len(versionsToDestroy[p])
    THEN /\ idx' = [idx EXCEPT ![p] = @ + 1]
         /\ UNCHANGED <<pc, todo, result, envContent>>
    ELSE /\ UNCHANGED idx
         /\ ReturnFromCleanup(p)

\* destroySecretVersion resolves for the current version of the loop
DestroyResolve(p) ==
    /\ pc[p] = "destroySecretVersion"
    /\ LET v == versionsToDestroy[p][idx[p]]
       IN  /\ store' = Destroyed(store, v.name)
           /\ Logged(p, Call("destroySecretVersion", v.name[1], v.name[2], TRUE))
    /\ DestroyNext(p)
    /\ UNCHANGED <<otherVars, config, now, files, callerArgs, versions, sortedVersions,
                   markedVersions, versionsToDestroy>>

\* Mutant: a destroy failure leaves the loop
DestroyReject_Aborts(p) ==
    /\ pc[p] = "destroySecretVersion"
    /\ LET v == versionsToDestroy[p][idx[p]]
       IN  Logged(p, Call("destroySecretVersion", v.name[1], v.name[2], FALSE))
    /\ ReturnFromCleanup(p)
    /\ UNCHANGED <<otherVars, config, now, store, files, callerArgs, cleanupLocals>>

\* destroySecretVersion rejects: caught at line 234, the loop goes on
DestroyReject(p) ==
    /\ pc[p] = "destroySecretVersion"
    /\ LET v == versionsToDestroy[p][idx[p]]
       IN  Logged(p, Call("destroySecretVersion", v.name[1], v.name[2], FALSE))
    /\ DestroyNext(p)
    /\ UNCHANGED <<otherVars, config, now, store, files, callerArgs, versions, sortedVersions,
                   markedVersions, versionsToDestroy>>

\* ------------------------------------------------------------------------
\* uploadEnv / uploadSingleEnv
\* ------------------------------------------------------------------------
RECURSIVE SumLen(_, _)
SumLen(st, secrets) ==
    IF secrets = {} THEN 0
    ELSE LET s == CHOOSE x \in secrets : TRUE
         IN  Len(st[s].versions) + SumLen(st, secrets \ {s})

StoredVersions == SumLen(store, SecretNames)

\* uploadEnv(serviceName), up to its first store call
CallUploadEnv(p, svc) ==
    /\ manager = "constructed"
    /\ pc[p] = "idle"
    /\ StoredVersions + (IF svc = "all" THEN Len(config.services) ELSE 1)
           <= MaxStored
    /\ opName' = [opName EXCEPT ![p] = "uploadEnv"]
    /\ serviceName' = [serviceName EXCEPT ![p] = svc]
    /\ calls' = [calls EXCEPT ![p] = <<>>]
    /\ ResetCleanupLocals(p)
    /\ IF svc # "all" /\ ~ServiceKnown(config, svc)
       THEN Finish(p, "rejected") /\ UNCHANGED envContent   \* getEnvPath throws
       ELSE UploadRest(p, IF svc = "all" THEN getServiceNames(config)
                          ELSE <<svc>>)
    /\ UNCHANGED <<otherVars, config, now, store, files>>

\* getSecret resolves: the secret exists, a version is added (line 117)
GetSecretResolve(p) ==
    /\ pc[p] = "getSecret"
    /\ store[CurrentSecret(p)].exists
    /\ Logged(p, Call("getSecret", CurrentSecret(p), 0, TRUE))
    /\ Await(p, "addSecretVersion", todo[p])
    /\ UNCHANGED <<otherVars, config, now, store, files, callerArgs, envContent, cleanupLocals>>

\* A store call on a missing secret fails with NOT_FOUND; any call may fail
\* for another reason.
FailsWith(secret, err) ==
    \/ err = "NOT_FOUND" /\ ~store[secret].exists
    \/ err = "PERMISSION_DENIED"

\* The catch block of uploadSingleEnv (lines 128-151)
UploadCatch(p, err) ==
    IF err = "NOT_FOUND" THEN Await(p, "createSecret", todo[p])
    ELSE Finish(p, "rejected")

\* getSecret rejects
GetSecretReject(p, err) ==
    /\ pc[p] = "getSecret"
    /\ FailsWith(CurrentSecret(p), err)
    /\ Logged(p, Call("getSecret", CurrentSecret(p), 0, FALSE))
    /\ UploadCatch(p, err)
    /\ UNCHANGED <<otherVars, config, now, store, files, callerArgs, envContent, cleanupLocals>>

\* The store appends a version to the secret
WithNewVersion(st, secret, clock, data) ==
    [st EXCEPT ![secret].versions =
        Append(@, [name |-> <<secret, Len(@) + 1>>, seconds |-> clock.seconds,
                   nanos |-> clock.millis * 1000000,
                   state |-> "ENABLED", data |-> data])]

\* addSecretVersion (line 117) resolves: cleanupSecretVersions is called
AddVersionResolve(p) ==
    /\ pc[p] = "addSecretVersion"
    /\ store[CurrentSecret(p)].exists
    /\ store' = WithNewVersion(store, CurrentSecret(p), Clock, envContent[p])
    /\ Logged(p, Call("addSecretVersion", CurrentSecret(p),
                      Len(store[CurrentSecret(p)].versions) + 1, TRUE))
    /\ IF ~PolicyEnabled(getDeletePolicy(config))
       THEN UploadRest(p, Tail(todo[p]))
       ELSE Await(p, "listSecretVersions", todo[p]) /\ UNCHANGED envContent
    /\ UNCHANGED <<otherVars, config, now, files, callerArgs, cleanupLocals>>

\* addSecretVersion (line 117) rejects
AddVersionReject(p, err) ==
    /\ pc[p] = "addSecretVersion"
    /\ FailsWith(CurrentSecret(p), err)
    /\ Logged(p, Call("addSecretVersion", CurrentSecret(p), 0, FALSE))
    /\ UploadCatch(p, err)
    /\ UNCHANGED <<otherVars, config, now, store, files, callerArgs, envContent, cleanupLocals>>

\* createSecret resolves: the first version is added (line 142)
CreateSecretResolve(p) ==
    /\ pc[p] = "createSecret"
    /\ ~store[CurrentSecret(p)].exists
    /\ store' = [store EXCEPT ![CurrentSecret(p)].exists = TRUE]
    /\ Logged(p, Call("createSecret", CurrentSecret(p), 0, TRUE))
    /\ Await(p, "addFirstVersion", todo[p])
    /\ UNCHANGED <<otherVars, config, now, files, callerArgs, envContent, cleanupLocals>>

\* createSecret rejects (ALREADY_EXISTS or any other failure): the error
\* leaves the catch block
CreateSecretReject(p) ==
    /\ pc[p] = "createSecret"
    /\ Logged(p, Call("createSecret", CurrentSecret(p), 0, FALSE))
    /\ Finish(p, "rejected")
    /\ UNCHANGED <<otherVars, config, now, store, files, callerArgs, envContent, cleanupLocals>>

\* addSecretVersion (line 142) resolves: no cleanup follows
AddFirstResolve(p) ==
    /\ pc[p] = "addFirstVersion"
    /\ store[CurrentSecret(p)].exists
    /\ store' = WithNewVersion(store, CurrentSecret(p), Clock, envContent[p])
    /\ Logged(p, Call("addSecretVersion", CurrentSecret(p),
                      Len(store[CurrentSecret(p)].versions) + 1, TRUE))
    /\ UploadRest(p, Tail(todo[p]))
    /\ UNCHANGED <<otherVars, config, now, files, callerArgs, cleanupLocals>>

\* addSecretVersion (line 142) rejects
AddFirstReject(p) ==
    /\ pc[p] = "addFirstVersion"
    /\ Logged(p, Call("addSecretVersion", CurrentSecret(p), 0, FALSE))
    /\ Finish(p, "rejected")
    /\ UNCHANGED <<otherVars, config, now, store, files, callerArgs, envContent, cleanupLocals>>

\* ------------------------------------------------------------------------
\* handleOperation "download": downloadEnv, then setEnv when --set is given
\* ------------------------------------------------------------------------
getTargetPath(cfg, name) == getServiceByName(cfg, name).targetPath

TargetPaths == {ServiceConfigs[i].targetPath : i \in 1..Len(ServiceConfigs)}

\* The services an operation called with svc goes through
ServicesOf(svc) == IF svc = "all" THEN getServiceNames(config) ELSE <<svc>>

\* versions/latest names the version created last; the store answers its
\* payload when that version is ENABLED
LatestReadable(secret) ==
    /\ store[secret].exists
    /\ Len(store[secret].versions) > 0
    /\ store[secret].versions[Len(store[secret].versions)].state = "ENABLED"

LatestData(secret) == store[secret].versions[Len(store[secret].versions)].data

\* setEnv's loop over the services in rest: each setSingleEnv awaits its
\* own accessSecretVersion call
SetRest(p, rest) ==
    IF rest = <<>> THEN Finish(p, "resolved")
    ELSE Await(p, "accessForSet", rest)

\* downloadEnv's loop over the services in rest; when it ends,
\* handleOperation calls setEnv(serviceName) if shouldSetEnv
DownloadRest(p, rest, shouldSetEnv, svc) ==
    IF rest # <<>> THEN Await(p, "accessSecretVersion", rest)
    ELSE IF shouldSetEnv THEN SetRest(p, ServicesOf(svc))
    ELSE Finish(p, "resolved")

\* handleOperation("download", serviceName, ..., shouldSetEnv), up to its
\* first store call
CallDownload(p, svc, shouldSetEnv) ==
    /\ manager = "constructed"
    /\ pc[p] = "idle"
    /\ opName' = [opName EXCEPT ![p] = IF shouldSetEnv THEN "download --set" ELSE "download"]
    /\ serviceName' = [serviceName EXCEPT ![p] = svc]
    /\ calls' = [calls EXCEPT ![p] = <<>>]
    /\ ResetCleanupLocals(p)
    /\ IF svc # "all" /\ ~ServiceKnown(config, svc)
       THEN Finish(p, "rejected")      \* getEnvPath throws
       ELSE DownloadRest(p, ServicesOf(svc), shouldSetEnv, svc)
    /\ UNCHANGED <<otherVars, config, now, store, files, envContent>>

\* accessSecretVersion of downloadSingleEnv resolves: the payload is
\* written to the env path (line 300)
DownloadResolve(p) ==
    /\ pc[p] = "accessSecretVersion"
    /\ LatestReadable(CurrentSecret(p))
    /\ Logged(p, Call("accessSecretVersion", CurrentSecret(p),
                      Len(store[CurrentSecret(p)].versions), TRUE))
    /\ files' = [files EXCEPT ![getEnvPath(config, Head(todo[p]))] =
                     LatestData(CurrentSecret(p))]
    /\ DownloadRest(p, Tail(todo[p]), opName[p] = "download --set", serviceName[p])
    /\ UNCHANGED <<otherVars, config, now, store, callerArgs, envContent, cleanupLocals>>

\* accessSecretVersion of downloadSingleEnv rejects (no secret, no readable
\* latest version, or any other failure): logged and thrown again
DownloadReject(p) ==
    /\ pc[p] = "accessSecretVersion"
    /\ Logged(p, Call("accessSecretVersion", CurrentSecret(p), 0, FALSE))
    /\ Finish(p, "rejected")
    /\ UNCHANGED <<otherVars, config, now, store, files, callerArgs, envContent,
                   cleanupLocals>>

\* accessSecretVersion of setSingleEnv resolves: the payload is written to
\* the target path (line 346)
SetResolve(p) ==
    /\ pc[p] = "accessForSet"
    /\ LatestReadable(CurrentSecret(p))
    /\ Logged(p, Call("accessSecretVersion", CurrentSecret(p),
                      Len(store[CurrentSecret(p)].versions), TRUE))
    /\ files' = [files EXCEPT ![getTargetPath(config, Head(todo[p]))] =
                     LatestData(CurrentSecret(p))]
    /\ SetRest(p, Tail(todo[p]))
    /\ UNCHANGED <<otherVars, config, now, store, callerArgs, envContent, cleanupLocals>>

\* accessSecretVersion of setSingleEnv rejects: logged and thrown again
SetReject(p) ==
    /\ pc[p] = "accessForSet"
    /\ Logged(p, Call("accessSecretVersion", CurrentSecret(p), 0, FALSE))
    /\ Finish(p, "rejected")
    /\ UNCHANGED <<otherVars, config, now, store, files, callerArgs, envContent,
                   cleanupLocals>>

\* The caller has observed the outcome (handleOperation returns, the CLI
\* process exits); the next invocation starts afresh.
Return(p) ==
    /\ pc[p] = "done"
    /\ pc' = [pc EXCEPT ![p] = "idle"]
    /\ opName' = [opName EXCEPT ![p] = "none"]
    /\ serviceName' = [serviceName EXCEPT ![p] = "none"]
    /\ result' = [result EXCEPT ![p] = "none"]
    /\ envContent' = [envContent EXCEPT ![p] = NoFile]
    /\ calls' = [calls EXCEPT ![p] = <<>>]
    /\ ResetCleanupLocals(p)
    /\ UNCHANGED <<otherVars, config, now, store, files, todo>>

\* ------------------------------------------------------------------------
\* loadConfig / initializeConfig (loadConfig.ts)
\* ------------------------------------------------------------------------
managerVars == <<configFile, manager, config, now, nowMillis, store, files, pc, callerArgs,
                 todo, result, envContent, cleanupLocals, calls>>

\* Mutant: the existing file is not looked for
existsSync_Never(file) == FALSE

\* fs.existsSync(resolvedEnvPath)
existsSync(file) == file # {}

\* dotenv.config({ path }): the assignments of the file are loaded into
\* process.env, a variable that is already there keeps its value; a file
\* that cannot be read loads nothing
DotenvConfig(env, file) ==
    IF file = {} THEN env
    ELSE LET content == CHOOSE c \in file : TRUE
         IN  [v \in VarNames |->
                 IF env[v] = Unset /\ content[v] # Unset THEN content[v] ELSE env[v]]

\* Mutant: a variable set to the empty string counts as present
IsMissing_UnsetOnly(env, varName) == env[varName] = Unset

\* !process.env[varName]
IsMissing(env, varName) == env[varName] = Unset \/ env[varName] = ""

Error(message, names) == [message |-> message, names |-> names]

\* Mutant: the cause of the failure is thrown as it is
InitializeError_Cause(cause) == Error(cause, <<>>)

\* The catch block of initializeConfig (lines 75-83)
InitializeError(cause) ==
    Error("Failed to initialize config for {serviceName} from Secret Manager", <<>>)

\* loadConfig after initializeConfig returned (lines 97-115): the outcome
\* and the error thrown; env is process.env as dotenv.config leaves it
ValidateEnv(env, required) ==
    IF IsMissing(env, "ENV")
    THEN <<"rejected", Error("ENV is not set", <<>>)>>
    ELSE LET missingVars == SelectSeq(required, LAMBDA varName : IsMissing(env, varName))
         IN  IF Len(required) > 0 /\ Len(missingVars) > 0
             THEN <<"rejected", Error("Missing required environment variables", missingVars)>>
             ELSE <<"resolved", NoError>>

\* loadConfig(options), up to the end or to its accessSecretVersion call
CallLoadConfig(required) ==
    /\ loader.pc = "idle"
    /\ IF existsSync(dotEnvFile)
       THEN /\ processEnv' = DotenvConfig(processEnv, dotEnvFile)
            /\ LET outcome == ValidateEnv(DotenvConfig(processEnv, dotEnvFile), required)
               IN  loader' = [IdleLoader EXCEPT !.pc = "done",
                                                !.requiredEnvVars = required,
                                                !.existed = (dotEnvFile # {}),
                                                !.result = outcome[1],
                                                !.error = outcome[2]]
       ELSE /\ loader' = [IdleLoader EXCEPT !.pc = "accessSecretVersion",
                                            !.requiredEnvVars = required,
                                            !.existed = (dotEnvFile # {}),
                                            !.clientCreated = TRUE,
                                            !.accessCalls = 1]
            /\ UNCHANGED processEnv
    /\ UNCHANGED <<dotEnvFile, managerVars>>

\* accessSecretVersion resolves with a version: payload is {} when the
\* version carries no payload data, else {the content}
AccessResolve(payload) ==
    /\ loader.pc = "accessSecretVersion"
    /\ IF payload = {}
       THEN /\ loader' = [loader EXCEPT !.pc = "done", !.response = "no data",
                                        !.result = "rejected",
                                        !.error = InitializeError("No data found for secret")]
            /\ UNCHANGED <<processEnv, dotEnvFile>>
       ELSE /\ dotEnvFile' = payload
            /\ processEnv' = DotenvConfig(processEnv, payload)
            /\ LET env == DotenvConfig(processEnv, payload)
                   outcome ==
                       IF IsMissing(env, "ENV")     \* line 69, thrown into the catch block
                       THEN <<"rejected",
                              InitializeError("ENV is not set after loading from Secret Manager")>>
                       ELSE ValidateEnv(env, loader.requiredEnvVars)
               IN  loader' = [loader EXCEPT !.pc = "done", !.response = "data",
                                            !.writes = @ + 1,
                                            !.result = outcome[1],
                                            !.error = outcome[2]]
    /\ UNCHANGED managerVars

\* accessSecretVersion rejects
AccessReject ==
    /\ loader.pc = "accessSecretVersion"
    /\ loader' = [loader EXCEPT !.pc = "done", !.response = "rejected",
                                !.result = "rejected",
                                !.error = InitializeError("Secret not found")]
    /\ UNCHANGED <<processEnv, dotEnvFile, managerVars>>

\* The caller of loadConfig has observed the outcome
LoadReturn ==
    /\ loader.pc = "done"
    /\ loader' = IdleLoader
    /\ UNCHANGED <<processEnv, dotEnvFile, managerVars>>

\* ------------------------------------------------------------------------
\* Construction: new GcpMonorepoSecretManager -> new ConfigManager
\* ------------------------------------------------------------------------
ConstructManager ==
    /\ manager = "none"
    /\ IF validateConfig(configFile)
       THEN /\ manager' = "constructed"
            /\ config' = [services |-> configFile.services,
                          deletePolicy |-> {PolicyOf(q) : q \in configFile.deletePolicy}]
       ELSE /\ manager' = "failed"
            /\ UNCHANGED config
    /\ UNCHANGED <<processEnv, dotEnvFile, loader, configFile, now, nowMillis, store, files,
                   pc, callerArgs, todo, result, envContent, cleanupLocals, calls>>

\* ------------------------------------------------------------------------
\* cli.ts: --add-service and --remove-service on the configuration file
\* ------------------------------------------------------------------------
\* The services a user may name, with the answers given for their paths
\* (paths are kept up to the file system's reading of them)
CandidateServices ==
    ServiceConfigs \o
    <<[name |-> "new-service", envPath |-> ".environments/.new-service.{env}.env",
       targetPath |-> "services/new-service/.env", secretPrefix |-> "new-service-env-vars"]>>

CandidateEnvPaths == {CandidateServices[i].envPath : i \in 1..Len(CandidateServices)}

\* ConfigManager.generateTemplate: the file it writes
TemplateFile ==
    [services |-> <<>>,
     deletePolicy |-> {RawOf([maxVersions |-> DefaultMaxVersions,
                              maxAgeDays |-> DefaultMaxAgeDays, enabled |-> TRUE])}]

\* existingServices.includes(name)
Includes(file, name) == \E i \in 1..Len(file.services) : file.services[i].name = name

\* addService, the answer to "Service name" being the unused name of
\* newService: new ConfigManager throws on an invalid file; config.services[0]
\* is undefined for an empty list and reading its envPath throws (line 294);
\* both end in the catch block, which exits with status 1.  Otherwise the
\* service is pushed, the file is written and the env files that are not
\* there yet are created.
AddService(p, newService) ==
    /\ pc[p] = "idle"
    /\ ~Includes(configFile, newService.name)
    /\ opName' = [opName EXCEPT ![p] = "add-service"]
    /\ serviceName' = [serviceName EXCEPT ![p] = newService.name]
    /\ IF ~validateConfig(configFile) \/ Len(configFile.services) = 0
       THEN /\ Finish(p, "rejected")
            /\ UNCHANGED <<configFile, files>>
       ELSE /\ configFile' = [configFile EXCEPT !.services = Append(@, newService)]
            /\ files' = [files EXCEPT ![newService.envPath] =
                             IF @ = NoFile THEN "# Add your environment variables here" ELSE @]
            /\ Finish(p, "resolved")
    /\ UNCHANGED <<processEnv, dotEnvFile, loader, manager, config, now, nowMillis, store,
                   envContent, cleanupLocals, calls>>

\* removeService, the answer naming serviceToRemove and the removal being
\* confirmed: nothing is written when the list is empty or the name is not
\* in it; otherwise the service is filtered out and the file is written.
RemoveService(p, serviceToRemove) ==
    /\ pc[p] = "idle"
    /\ opName' = [opName EXCEPT ![p] = "remove-service"]
    /\ serviceName' = [serviceName EXCEPT ![p] = serviceToRemove]
    /\ IF ~validateConfig(configFile)
       THEN Finish(p, "rejected") /\ UNCHANGED configFile
       ELSE /\ configFile' =
                   [configFile EXCEPT !.services =
                       SelectSeq(@, LAMBDA service : service.name # serviceToRemove)]
            /\ Finish(p, "resolved")
    /\ UNCHANGED <<processEnv, dotEnvFile, loader, manager, config, now, nowMillis, store,
                   files, envContent, cleanupLocals, calls>>

\* ------------------------------------------------------------------------
\* The clock
\* ------------------------------------------------------------------------
TickDay ==
    /\ now \div DaySeconds < MaxDay
    /\ now' = now + DaySeconds
    /\ UNCHANGED <<otherVars, config, store, files, pc, callerArgs, todo, result, envContent,
                   cleanupLocals, calls>>

\* ------------------------------------------------------------------------
\* Initial states and specifications
\* ------------------------------------------------------------------------
\* Policies that pass validateDeletePolicy, every field given
FullPolicies == [maxVersions : 0..MaxCount, maxAgeDays : 0..MaxAge, enabled : BOOLEAN]

\* The limits of a disabled policy are never read: one disabled policy is drawn.
DrawnPolicies ==
    {p \in FullPolicies : p.enabled \/ (p.maxVersions = MaxCount /\ p.maxAgeDays = MaxAge)}

NoStore == [s \in SecretNames |-> [exists |-> FALSE, versions |-> <<>>]]

\* loadConfig is not in use
NoLoader ==
    /\ processEnv = [v \in VarNames |-> Unset]
    /\ dotEnvFile = {}
    /\ loader = IdleLoader

\* The manager was constructed from a file that parses to config
Constructed ==
    /\ manager = "constructed"
    /\ configFile = FileOf(config)

IdleCallers ==
    /\ pc = [p \in Procs |-> "idle"]
    /\ opName = [p \in Procs |-> "none"]
    /\ serviceName = [p \in Procs |-> "none"]
    /\ versions = [p \in Procs |-> <<>>]
    /\ todo = [p \in Procs |-> <<>>]
    /\ result = [p \in Procs |-> "none"]
    /\ envContent = [p \in Procs |-> NoFile]
    /\ sortedVersions = [p \in Procs |-> <<>>]
    /\ markedVersions = [p \in Procs |-> <<>>]
    /\ versionsToDestroy = [p \in Procs |-> <<>>]
    /\ idx = [p \in Procs |-> 0]
    /\ calls = [p \in Procs |-> <<>>]

\* After construction against a project with no secrets: the env files of
\* some services are present.
Init ==
    /\ \/ config = [services |-> ServiceConfigs, deletePolicy |-> {}]
       \/ \E policy \in DrawnPolicies :
              config = [services |-> ServiceConfigs, deletePolicy |-> {policy}]
    /\ now = DaySeconds
    /\ nowMillis = 0
    /\ store = NoStore
    /\ \E present \in SUBSET EnvPaths :
           files = [f \in EnvPaths |-> IF f \in present THEN "env-1" ELSE NoFile]
    /\ Constructed
    /\ NoLoader
    /\ IdleCallers

ServiceArgs == Range(getServiceNames([services |-> ServiceConfigs])) \cup {"all", "unknown"}

Step(p) ==
    \/ \E svc \in ServiceArgs : CallUploadEnv(p, svc)
    \/ \E svc \in ServiceArgs : CallCleanupVersions(p, svc)
    \/ GetSecretResolve(p)
    \/ \E err \in {"NOT_FOUND", "PERMISSION_DENIED"} : GetSecretReject(p, err)
    \/ AddVersionResolve(p)
    \/ \E err \in {"NOT_FOUND", "PERMISSION_DENIED"} : AddVersionReject(p, err)
    \/ CreateSecretResolve(p)
    \/ CreateSecretReject(p)
    \/ AddFirstResolve(p)
    \/ AddFirstReject(p)
    \/ ListResolve(p)
    \/ ListReject(p)
    \/ DestroyResolve(p)
    \/ DestroyReject(p)
    \/ Return(p)

Next == Step(1) \/ TickDay

Spec == Init /\ [][Next]_vars

\* A secret with an arbitrary version history (creation order, creation
\* times not decreasing, any states), cleaned up by hand.  Versions were
\* created on days 1 to 4; the clock stands where an age rule of
\* maxAgeDays days puts its cutoff at day 3: two creation days lie before
\* the cutoff, one on it and one after it.
HistoryTimes == {d * DaySeconds : d \in 1..4}

CleanupClock(policy) ==
    (3 + (IF policy.maxAgeDays > 0 THEN policy.maxAgeDays ELSE 1)) * DaySeconds

History(secret, g) ==
    [i \in 1..Len(g) |-> [name |-> <<secret, i>>, seconds |-> g[i].seconds,
                          nanos |-> g[i].nanos,
                          state |-> g[i].state, data |-> "env-0"]]

InitCleanup ==
    /\ \E n \in 0..MaxHist :
         \E g \in [1..n -> [seconds : HistoryTimes, nanos : {0}, state : VersionStates]] :
           /\ \A i \in 1..(n - 1) : g[i].seconds <= g[i + 1].seconds
           /\ store = [NoStore EXCEPT ![<<"app-env-vars", "_ENV_FILE">>] =
                          [exists |-> TRUE,
                           versions |-> History(<<"app-env-vars", "_ENV_FILE">>, g)]]
    /\ \E policy \in DrawnPolicies :
           /\ config = [services |-> ServiceConfigs, deletePolicy |-> {policy}]
           /\ now = CleanupClock(policy)
    /\ nowMillis = 0
    /\ files = [f \in EnvPaths |-> NoFile]
    /\ Constructed
    /\ NoLoader
    /\ IdleCallers

NextCleanup ==
    \/ CallCleanupVersions(1, "app")
    \/ ListResolve(1)
    \/ ListReject(1)
    \/ DestroyResolve(1)
    \/ DestroyReject(1)
    \/ Return(1)

SpecCleanup == InitCleanup /\ [][NextCleanup]_vars

\* A secret whose versions were created around the cutoff of the age rule,
\* to the fraction of a second, cleaned up by hand with every request
\* answered successfully.  The clock stands maxAgeDays days after
\* CutoffSecond plus ClockMillis milliseconds.
CutoffSecond == 3 * DaySeconds

AgeSeconds == {CutoffSecond - DaySeconds, CutoffSecond, CutoffSecond + DaySeconds}

AgeNanos == {0, 500000000}

ClockMillis == {0, 250, 500}

AgePolicies == {p \in FullPolicies : p.enabled /\ p.maxAgeDays > 0}

InitAge ==
    /\ \E n \in 0..MaxHist :
         \E g \in [1..n -> [seconds : AgeSeconds, nanos : AgeNanos,
                            state : {"ENABLED", "DESTROYED"}]] :
           /\ \A i \in 1..(n - 1) :
                  \/ g[i].seconds < g[i + 1].seconds
                  \/ g[i].seconds = g[i + 1].seconds /\ g[i].nanos <= g[i + 1].nanos
           /\ store = [NoStore EXCEPT ![<<"app-env-vars", "_ENV_FILE">>] =
                          [exists |-> TRUE,
                           versions |-> History(<<"app-env-vars", "_ENV_FILE">>, g)]]
    /\ \E policy \in AgePolicies :
           /\ config = [services |-> ServiceConfigs, deletePolicy |-> {policy}]
           /\ now = CleanupClock(policy)
    /\ nowMillis \in ClockMillis
    /\ files = [f \in EnvPaths |-> NoFile]
    /\ Constructed
    /\ NoLoader
    /\ IdleCallers

NextAge ==
    \/ CallCleanupVersions(1, "app")
    \/ ListResolve(1)
    \/ DestroyResolve(1)
    \/ Return(1)

SpecAge == InitAge /\ [][NextAge]_vars

\* A configuration file with any deletePolicy, and a secret with a long
\* history of enabled versions: a manager is constructed from the file and
\* cleans the secret up by hand, every request answered successfully.
\* Versions are old (day 1) or recent (the day of the cleanup).
MaxLongHist == 12

ValidLimits(max) == {JUndefined} \cup {JNumber(2 * k) : k \in 0..max}

InvalidLimits == {JNumber(0 - 2), JNumber(1), JNumber(3), JNull, JString}

ValidFlags == {JUndefined, JBool(TRUE), JBool(FALSE)}

InvalidFlags == {JNull, JNumber(2), JString}

RawPolicies ==
    [maxVersions : ValidLimits(MaxCount) \cup InvalidLimits,
     maxAgeDays : ValidLimits(MaxAge) \cup InvalidLimits,
     enabled : ValidFlags \cup InvalidFlags]

WellFormed(q) ==
    /\ q.maxVersions \in ValidLimits(MaxCount)
    /\ q.maxAgeDays \in ValidLimits(MaxAge)
    /\ q.enabled \in ValidFlags

ConfigClock == (DefaultMaxAgeDays + 10) * DaySeconds

LongHistory(secret, n, old) ==
    [i \in 1..n |-> [name |-> <<secret, i>>,
                     seconds |-> IF i <= old THEN DaySeconds ELSE ConfigClock,
                     nanos |-> 0, state |-> "ENABLED", data |-> "env-0"]]

InitConfig ==
    /\ \/ configFile = [services |-> ServiceConfigs, deletePolicy |-> {}]
       \/ \E q \in RawPolicies :
              configFile = [services |-> ServiceConfigs, deletePolicy |-> {q}]
    /\ \E n \in 0..MaxLongHist :
         \E old \in 0..n :
           /\ (\E q \in configFile.deletePolicy : ~WellFormed(q)) => (n = 2 /\ old = 1)
           /\ store = [NoStore EXCEPT ![<<"app-env-vars", "_ENV_FILE">>] =
                          [exists |-> TRUE,
                           versions |-> LongHistory(<<"app-env-vars", "_ENV_FILE">>, n, old)]]
    /\ manager = "none"
    /\ config = [services |-> <<>>, deletePolicy |-> {}]
    /\ now = ConfigClock
    /\ nowMillis = 0
    /\ files = [f \in EnvPaths |-> NoFile]
    /\ NoLoader
    /\ IdleCallers

NextConfig ==
    \/ ConstructManager
    \/ CallCleanupVersions(1, "app")
    \/ ListResolve(1)
    \/ DestroyResolve(1)
    \/ Return(1)

SpecConfig == InitConfig /\ [][NextConfig]_vars

\* loadConfig called in a process with any environment, with or without
\* a .env file at the resolved path.
RequiredLists ==
    {r \in UNION {[1..n -> VarNames] : n \in 0..MaxRequired} :
        \A i, j \in 1..Len(r) : r[i] = r[j] => i = j}

EnvContents == [VarNames -> EnvValues]

InitLoad ==
    /\ processEnv \in EnvContents
    /\ \/ dotEnvFile = {}
       \/ \E content \in EnvContents : dotEnvFile = {content}
    /\ loader = IdleLoader
    /\ manager = "none"
    /\ config = [services |-> <<>>, deletePolicy |-> {}]
    /\ configFile = FileOf(config)
    /\ now = DaySeconds
    /\ nowMillis = 0
    /\ store = NoStore
    /\ files = [f \in EnvPaths |-> NoFile]
    /\ IdleCallers

NextLoad ==
    \/ \E required \in RequiredLists : CallLoadConfig(required)
    \/ \E content \in EnvContents : AccessResolve({content})
    \/ AccessResolve({})
    \/ AccessReject
    \/ LoadReturn

SpecLoad == InitLoad /\ [][NextLoad]_vars

\* A secret that holds versions uploaded earlier, and an env file that was
\* edited since: caller 1 downloads (with or without --set) while caller 2
\* uploads the edited file.  The second service has no secret yet.
EarlierUploads(secret, n) ==
    [i \in 1..n |-> [name |-> <<secret, i>>, seconds |-> DaySeconds, nanos |-> 0,
                     state |-> "ENABLED", data |-> "env-0"]]

InitDownload ==
    /\ config = [services |-> ServiceConfigs, deletePolicy |-> {}]
    /\ \E n \in 0..1 :
           store = [NoStore EXCEPT ![<<"app-env-vars", "_ENV_FILE">>] =
                       [exists |-> TRUE,
                        versions |-> EarlierUploads(<<"app-env-vars", "_ENV_FILE">>, n)]]
    /\ \E content \in {NoFile, "env-1"} :
           files = [f \in EnvPaths \cup TargetPaths |->
                       IF f = ".environments/.app.{env}.env" THEN content ELSE NoFile]
    /\ now = 2 * DaySeconds
    /\ nowMillis = 0
    /\ Constructed
    /\ NoLoader
    /\ IdleCallers

NextDownload ==
    \/ \E svc \in ServiceArgs : \E shouldSetEnv \in BOOLEAN : CallDownload(1, svc, shouldSetEnv)
    \/ DownloadResolve(1)
    \/ DownloadReject(1)
    \/ SetResolve(1)
    \/ SetReject(1)
    \/ Return(1)
    \/ CallUploadEnv(2, "app")
    \/ GetSecretResolve(2)
    \/ AddVersionResolve(2)
    \/ ListResolve(2)
    \/ Return(2)

SpecDownload == InitDownload /\ [][NextDownload]_vars

\* The worked example of the retention policy: a secret whose n versions
\* were created one day apart, all ENABLED, cleaned up by hand at the
\* creation time of the newest one with maxVersions 5 and maxAgeDays 3.
ExamplePolicy == [maxVersions |-> 5, maxAgeDays |-> 3, enabled |-> TRUE]

DailyHistory(secret, n) ==
    [i \in 1..n |-> [name |-> <<secret, i>>, seconds |-> i * DaySeconds, nanos |-> 0,
                     state |-> "ENABLED", data |-> "env-0"]]

InitExample ==
    /\ \E n \in 0..MaxLongHist :
           /\ store = [NoStore EXCEPT ![<<"app-env-vars", "_ENV_FILE">>] =
                          [exists |-> TRUE,
                           versions |-> DailyHistory(<<"app-env-vars", "_ENV_FILE">>, n)]]
           /\ now = n * DaySeconds
    /\ config = [services |-> ServiceConfigs, deletePolicy |-> {ExamplePolicy}]
    /\ nowMillis = 0
    /\ files = [f \in EnvPaths |-> NoFile]
    /\ Constructed
    /\ NoLoader
    /\ IdleCallers

SpecExample == InitExample /\ [][NextCleanup]_vars

\* Two invocations of the tool at work on the secret of one service at the
\* same time, each an upload or a manual cleanup, while the clock moves on.
\* The store answers every request as the secret stands (a missing secret
\* is NOT_FOUND, an existing one cannot be created again); a listing may
\* fail for any reason.
\* The secret does not exist yet, or holds up to two ENABLED versions
\* created half a day or a full day after the epoch; the clock starts at
\* day 2, where with maxAgeDays = 1 the older creation time lies before the
\* cutoff and the newer one on it.
RaceTimes == {DaySeconds \div 2, DaySeconds}

InitRace ==
    /\ \/ store = NoStore
       \/ \E n \in 0..2 :
            \E g \in [1..n -> [seconds : RaceTimes, nanos : {0}, state : {"ENABLED"}]] :
              /\ \A i \in 1..(n - 1) : g[i].seconds <= g[i + 1].seconds
              /\ store = [NoStore EXCEPT ![<<"app-env-vars", "_ENV_FILE">>] =
                             [exists |-> TRUE,
                              versions |-> History(<<"app-env-vars", "_ENV_FILE">>, g)]]
    /\ \E policy \in DrawnPolicies :
           config = [services |-> ServiceConfigs, deletePolicy |-> {policy}]
    /\ now = 2 * DaySeconds
    /\ nowMillis = 0
    /\ files = [f \in EnvPaths |->
                   IF f = ".environments/.app.{env}.env" THEN "env-1" ELSE NoFile]
    /\ Constructed
    /\ NoLoader
    /\ IdleCallers

StepRace(p) ==
    \/ CallUploadEnv(p, "app")
    \/ CallCleanupVersions(p, "app")
    \/ GetSecretResolve(p)
    \/ GetSecretReject(p, "NOT_FOUND")
    \/ AddVersionResolve(p)
    \/ CreateSecretResolve(p)
    \/ (pc[p] = "createSecret" /\ store[AppSecret].exists /\ CreateSecretReject(p))
    \/ AddFirstResolve(p)
    \/ ListResolve(p)
    \/ ListReject(p)
    \/ DestroyResolve(p)

\* Half a second passes
TickHalfSecond ==
    /\ nowMillis = 0
    /\ nowMillis' = 500
    /\ UNCHANGED <<processEnv, dotEnvFile, loader, configFile, manager, config, now, store,
                   files, pc, callerArgs, todo, result, envContent, cleanupLocals, calls>>

NextRace == (\E p \in Procs : StepRace(p)) \/ TickDay \/ TickHalfSecond

SpecRace == InitRace /\ [][NextRace]_vars

\* The configuration file as the template leaves it, or with some services
\* and any well-formed or ill-formed deletePolicy; services are added and
\* removed from the command line.
ServiceLists ==
    {l \in UNION {[1..n -> Range(CandidateServices)] : n \in 0..Len(CandidateServices)} :
        \A i, j \in 1..Len(l) : l[i].name = l[j].name => i = j}

InitServices ==
    /\ \/ configFile = TemplateFile
       \/ \E l \in ServiceLists :
            \/ configFile = [services |-> l, deletePolicy |-> {}]
            \/ \E q \in {RawOf(ExamplePolicy), [RawOf(ExamplePolicy) EXCEPT !.enabled = JString]} :
                   configFile = [services |-> l, deletePolicy |-> {q}]
    /\ manager = "none"
    /\ config = [services |-> <<>>, deletePolicy |-> {}]
    /\ now = DaySeconds
    /\ nowMillis = 0
    /\ store = NoStore
    /\ files = [f \in CandidateEnvPaths |-> NoFile]
    /\ NoLoader
    /\ IdleCallers

NextServices ==
    \/ \E i \in 1..Len(CandidateServices) : AddService(1, CandidateServices[i])
    \/ \E i \in 1..Len(CandidateServices) : RemoveService(1, CandidateServices[i].name)
    \/ Return(1)

SpecServices == InitServices /\ [][NextServices]_vars

\* One user at work on one service over several days: the env file is
\* edited, uploaded, the secret is cleaned up by hand and downloaded, one
\* operation after the other, every request answered by the store as it
\* stands.
EnvContentsOf(path) == {"env-1", "env-2"}

\* The user edits the env file between two operations
EditEnvFile(path) ==
    /\ pc[1] = "idle"
    /\ \E content \in EnvContentsOf(path) :
           /\ content # files[path]
           /\ files' = [files EXCEPT ![path] = content]
    /\ UNCHANGED <<otherVars, config, now, store, pc, callerArgs, todo, result, envContent,
                   cleanupLocals, calls>>

InitLatest ==
    /\ \/ config = [services |-> ServiceConfigs, deletePolicy |-> {}]
       \/ \E policy \in DrawnPolicies :
              config = [services |-> ServiceConfigs, deletePolicy |-> {policy}]
    /\ now = DaySeconds
    /\ nowMillis = 0
    /\ store = NoStore
    /\ files = [f \in EnvPaths |->
                   IF f = ".environments/.app.{env}.env" THEN "env-1" ELSE NoFile]
    /\ Constructed
    /\ NoLoader
    /\ IdleCallers

NextLatest ==
    \/ EditEnvFile(".environments/.app.{env}.env")
    \/ CallUploadEnv(1, "app")
    \/ CallCleanupVersions(1, "app")
    \/ CallDownload(1, "app", FALSE)
    \/ GetSecretResolve(1)
    \/ GetSecretReject(1, "NOT_FOUND")
    \/ CreateSecretResolve(1)
    \/ AddFirstResolve(1)
    \/ AddVersionResolve(1)
    \/ ListResolve(1)
    \/ ListReject(1)
    \/ DestroyResolve(1)
    \/ DownloadResolve(1)
    \/ DownloadReject(1)
    \/ Return(1)
    \/ TickDay

SpecLatest == InitLatest /\ [][NextLatest]_vars

\* uploadEnv('all') against a project in any state the uploads themselves
\* bring about: the env files of some services are present, any store
\* request may fail.
NextAll ==
    \/ CallUploadEnv(1, "all")
    \/ GetSecretResolve(1)
    \/ \E err \in {"NOT_FOUND", "PERMISSION_DENIED"} : GetSecretReject(1, err)
    \/ AddVersionResolve(1)
    \/ \E err \in {"NOT_FOUND", "PERMISSION_DENIED"} : AddVersionReject(1, err)
    \/ CreateSecretResolve(1)
    \/ CreateSecretReject(1)
    \/ AddFirstResolve(1)
    \/ AddFirstReject(1)
    \/ ListResolve(1)
    \/ ListReject(1)
    \/ DestroyResolve(1)
    \/ DestroyReject(1)
    \/ Return(1)

SpecAll == Init /\ [][NextAll]_vars

\* ------------------------------------------------------------------------
\* Properties
\* ------------------------------------------------------------------------
LiveOf(vs) == {v \in Range(vs) : v.state \in LiveStates}

Names(vs) == {vs[i].name : i \in 1..Len(vs)}

IsDestroyCall(c) == c.api = "destroySecretVersion"

IsListCall(c) == c.api = "listSecretVersions"

DestroyCalls(p) == SelectSeq(calls[p], IsDestroyCall)

Policy == getDeletePolicy(config)

\* The configuration says enabled: false
ConfiguredDisabled ==
    \E q \in config.deletePolicy : "enabled" \in DOMAIN q /\ q["enabled"] = FALSE

\* The configuration says enabled: true, or has no deletePolicy (default)
ConfiguredEnabled ==
    \/ config.deletePolicy = {}
    \/ \E q \in config.deletePolicy : "enabled" \in DOMAIN q /\ q["enabled"] = TRUE

\* C1 - Floor invariant: whenever the listing of a cleanup holds a live
\* version (ENABLED or DISABLED), the versions selected for destruction
\* leave out at least one live version of that listing.
FloorInvariant ==
    \A p \in Procs :
        LiveOf(versions[p]) # {} =>
            \E v \in LiveOf(versions[p]) : v.name \notin Names(versionsToDestroy[p])

\* C1 witness: the count and age rules together marked every one of at
\* least two live versions, and the destroy loop has started.
FloorApplied ==
    \E p \in Procs :
        /\ pc[p] = "destroySecretVersion"
        /\ Cardinality(LiveOf(versions[p])) >= 2
        /\ Names(markedVersions[p]) = {v.name : v \in LiveOf(versions[p])}

\* C2 - When the marked versions cover the whole live set, the one live
\* version left out of the destroy list is the newest by creation time.
SurvivorIsNewest ==
    \A p \in Procs :
        (/\ LiveOf(versions[p]) # {}
         /\ Names(markedVersions[p]) = {v.name : v \in LiveOf(versions[p])})
        => \A v \in LiveOf(versions[p]) :
               v.name \notin Names(versionsToDestroy[p])
               => \A w \in LiveOf(versions[p]) : w.seconds <= v.seconds

\* Position of a version in the newest-first order of the live versions of
\* a listing: versions created later come first, versions created in the
\* same second keep their listing order.
PositionIn(vs, v) == CHOOSE i \in 1..Len(vs) : vs[i].name = v.name

NewestFirstIndex(vs, v) ==
    Cardinality({w \in LiveOf(vs) : w.seconds > v.seconds})
    + Cardinality({w \in LiveOf(vs) : /\ w.seconds = v.seconds
                                       /\ PositionIn(vs, w) < PositionIn(vs, v)})

CountCandidates(vs, policy) ==
    IF policy.maxVersions > 0
    THEN {v \in LiveOf(vs) : NewestFirstIndex(vs, v) >= policy.maxVersions}
    ELSE {}

AgeCandidates(vs, clock, policy) ==
    IF policy.maxAgeDays > 0
    THEN {v \in LiveOf(vs) : v.seconds < clock - policy.maxAgeDays * DaySeconds}
    ELSE {}

NoOpOnTrivialInput ==
    \A p \in Procs :
        Cardinality(LiveOf(versions[p])) <= 1 =>
            /\ versionsToDestroy[p] = <<>>
            /\ pc[p] # "destroySecretVersion"
            /\ \A i \in 1..Len(calls[p]) :
                   IsDestroyCall(calls[p][i]) =>
                       <<calls[p][i].secret, calls[p][i].version>> \notin Names(versions[p])

\* C5 witness: a listing of several versions of which exactly one is live,
\* that one being marked by a rule; the cleanup has returned.
SingleLiveMarked ==
    \E p \in Procs :
        /\ pc[p] = "done"
        /\ Len(versions[p]) >= 2
        /\ Cardinality(LiveOf(versions[p])) = 1
        /\ Len(markedVersions[p]) = 1

StateInStore(name) ==
    LET vs == store[name[1]].versions
    IN  vs[CHOOSE i \in 1..Len(vs) : vs[i].name = name].state

\* C6 - Per-item failure isolation: the destroy loop requests each version
\* of the destroy list once, in order, whatever the earlier requests
\* answered; a manual cleanup of one service resolves; and the listed live
\* versions that are now destroyed are exactly those whose request succeeded.
PerItemIsolation ==
    \A p \in Procs :
        (opName[p] = "cleanupVersions" /\ serviceName[p] # "all") =>
            /\ pc[p] = "destroySecretVersion" => Len(DestroyCalls(p)) = idx[p] - 1
            /\ \A i \in 1..Len(DestroyCalls(p)) :
                   <<DestroyCalls(p)[i].secret, DestroyCalls(p)[i].version>>
                       = versionsToDestroy[p][i].name
            /\ pc[p] = "done" =>
                   /\ ServiceKnown(config, serviceName[p]) => result[p] = "resolved"
                   /\ Len(DestroyCalls(p)) = Len(versionsToDestroy[p])
                   /\ \A v \in LiveOf(versions[p]) :
                          StateInStore(v.name) = "DESTROYED"
                          <=> \E i \in 1..Len(DestroyCalls(p)) :
                                  /\ DestroyCalls(p)[i].version = v.name[2]
                                  /\ DestroyCalls(p)[i].ok

\* C6 witness: a cleanup has returned after its first destroy request failed
\* and a later one succeeded.
FailedThenDestroyed ==
    \E p \in Procs :
        /\ pc[p] = "done"
        /\ Len(DestroyCalls(p)) >= 2
        /\ ~DestroyCalls(p)[1].ok
        /\ DestroyCalls(p)[2].ok

\* C9 - Idempotence: once a manual cleanup of one service has returned with
\* its listing and every destroy request answered successfully, a cleanup
\* that lists the secret at the same clock has nothing to destroy.
Idempotence ==
    \A p \in Procs :
        (/\ pc[p] = "done"
         /\ opName[p] = "cleanupVersions"
         /\ serviceName[p] # "all"
         /\ calls[p] # <<>>
         /\ \A i \in 1..Len(calls[p]) : calls[p][i].ok)
        => DestroyList(Listing(getSecretName(config, serviceName[p])), Clock, Policy) = <<>>

\* C9 witness: the first run marked every one of several live versions,
\* destroyed all but the one it kept, and the one it kept is older than
\* maxAgeDays.
SurvivorStillOld ==
    \E p \in Procs :
        /\ pc[p] = "done"
        /\ \A i \in 1..Len(calls[p]) : calls[p][i].ok
        /\ Len(DestroyCalls(p)) >= 1
        /\ Names(markedVersions[p]) = {v.name : v \in LiveOf(versions[p])}
        /\ \E v \in LiveOf(Listing(getSecretName(config, serviceName[p]))) :
               Policy.maxAgeDays > 0 /\ v.seconds < now - Policy.maxAgeDays * DaySeconds

\* C4 - Disabled policy: while the delete policy has enabled = false, no caller
\* awaits or has made a list-versions or destroy call, and a manual cleanup
\* of a configured service (or of "all") resolves.
DisabledPolicyNoCalls ==
    ConfiguredDisabled =>
        \A p \in Procs :
            /\ pc[p] \notin {"listSecretVersions", "destroySecretVersion"}
            /\ \A i \in 1..Len(calls[p]) :
                   ~IsListCall(calls[p][i]) /\ ~IsDestroyCall(calls[p][i])
            /\ (/\ pc[p] = "done"
                /\ opName[p] = "cleanupVersions"
                /\ (serviceName[p] = "all" \/ ServiceKnown(config, serviceName[p])))
               => result[p] = "resolved"

\* C4 witness: with the policy disabled, an upload to an existing secret
\* added its version and resolved (the post-upload cleanup was reached).
DisabledAfterUpload ==
    /\ ConfiguredDisabled
    /\ \E p \in Procs :
           /\ pc[p] = "done"
           /\ opName[p] = "uploadEnv"
           /\ result[p] = "resolved"
           /\ \E i \in 1..Len(calls[p]) : calls[p][i].api = "getSecret" /\ calls[p][i].ok

ListFailed(p) == \E i \in 1..Len(calls[p]) : IsListCall(calls[p][i]) /\ ~calls[p][i].ok

\* C7 (as claimed) - a failed listing makes the manual cleanup of one
\* service raise the error to its caller.
ListFailureRaises ==
    \A p \in Procs :
        (/\ pc[p] = "done"
         /\ opName[p] = "cleanupVersions"
         /\ serviceName[p] # "all"
         /\ ListFailed(p))
        => result[p] = "rejected"

\* C7 (amended) - once the listing of a manual cleanup of one service has
\* failed, the cleanup is over: the failed listing is its only store call
\* (no destroy call is made) and the error is not raised to the caller.
ListFailureNoDestroy ==
    \A p \in Procs :
        (/\ opName[p] = "cleanupVersions"
         /\ serviceName[p] # "all"
         /\ ListFailed(p))
        => /\ pc[p] = "done"
           /\ Len(calls[p]) = 1
           /\ DestroyCalls(p) = <<>>
           /\ result[p] # "rejected"

\* C7 witness: the listing failed for a secret whose versions a cleanup
\* would have destroyed.
ListFailedWithCandidates ==
    \E p \in Procs :
        /\ opName[p] = "cleanupVersions"
        /\ serviceName[p] # "all"
        /\ ListFailed(p)
        /\ DestroyList(Listing(getSecretName(config, serviceName[p])), Clock, Policy) # <<>>

\* C8 - Graceful cleanup: cleanupVersions(service) for a configured service
\* resolves when its list-versions call rejected.
GracefulCleanup ==
    \A p \in Procs :
        (/\ pc[p] = "done"
         /\ opName[p] = "cleanupVersions"
         /\ ServiceKnown(config, serviceName[p])
         /\ calls[p] # <<>>
         /\ ~calls[p][Len(calls[p])].ok)
        => result[p] = "resolved"

\* C8 witness: the listing of an existing secret was refused and the
\* cleanup resolved.
ListRefusedResolved ==
    \E p \in Procs :
        /\ pc[p] = "done"
        /\ opName[p] = "cleanupVersions"
        /\ ServiceKnown(config, serviceName[p])
        /\ ListFailed(p)
        /\ store[getSecretName(config, serviceName[p])].exists
        /\ result[p] = "resolved"

\* C10 - Upload triggers cleanup: with the policy enabled, every version an
\* upload has added is followed, before the upload returns, by a cleanup of
\* the same secret (which starts with its list-versions call).
UploadTriggersCleanup ==
    \A p \in Procs :
        (pc[p] = "done" /\ opName[p] = "uploadEnv" /\ ConfiguredEnabled) =>
            \A i \in 1..Len(calls[p]) :
                (calls[p][i].api = "addSecretVersion" /\ calls[p][i].ok) =>
                    \E j \in (i + 1)..Len(calls[p]) :
                        /\ IsListCall(calls[p][j])
                        /\ calls[p][j].secret = calls[p][i].secret

IsAddCall(c) == c.api = "addSecretVersion"

\* The first successful addSecretVersion call of caller p's operation, or 0
FirstAdded(p) ==
    IF \E i \in 1..Len(calls[p]) : IsAddCall(calls[p][i]) /\ calls[p][i].ok
    THEN CHOOSE i \in 1..Len(calls[p]) :
             /\ IsAddCall(calls[p][i]) /\ calls[p][i].ok
             /\ \A j \in 1..(i - 1) : ~(IsAddCall(calls[p][j]) /\ calls[p][j].ok)
    ELSE 0

\* C11 - Cleanup failure never fails the upload: once uploadEnv(service)
\* has added its version, the upload is never rejected and resolves when it
\* ends, whatever the listing and the destroy requests of the cleanup
\* answer; after the version was added the upload makes only list-versions
\* and destroy calls (no second addSecretVersion, no createSecret).
CleanupNeverFailsUpload ==
    \A p \in Procs :
        (opName[p] = "uploadEnv" /\ serviceName[p] # "all" /\ FirstAdded(p) > 0) =>
            /\ result[p] # "rejected"
            /\ pc[p] \in {"listSecretVersions", "destroySecretVersion", "done"}
            /\ pc[p] = "done" => result[p] = "resolved"
            /\ \A j \in (FirstAdded(p) + 1)..Len(calls[p]) :
                   IsListCall(calls[p][j]) \/ IsDestroyCall(calls[p][j])

\* C11 witness: an upload has returned after its cleanup had a destroy
\* request refused.
UploadSurvivedDestroyFailure ==
    \E p \in Procs :
        /\ opName[p] = "uploadEnv"
        /\ serviceName[p] # "all"
        /\ pc[p] = "done"
        /\ FirstAdded(p) > 0
        /\ \E j \in 1..Len(calls[p]) : IsDestroyCall(calls[p][j]) /\ ~calls[p][j].ok

\* The calls caller p made on the secret of the i-th configured service
CallsOn(p, i) ==
    SelectSeq(calls[p], LAMBDA c : c.secret = getSecretName(config, config.services[i].name))

\* C12 - Fan-out independence: cleanupVersions('all') is never rejected,
\* and when it ends with the policy enabled it has made a list-versions
\* call for the secret of every configured service, in configuration order,
\* whatever the calls on the earlier secrets answered.
FanOutIndependence ==
    \A p \in Procs :
        (opName[p] = "cleanupVersions" /\ serviceName[p] = "all") =>
            /\ result[p] # "rejected"
            /\ (pc[p] = "done" /\ ConfiguredEnabled) =>
                   /\ result[p] = "resolved"
                   /\ \A i \in 1..Len(config.services) :
                          /\ CallsOn(p, i) # <<>>
                          /\ IsListCall(CallsOn(p, i)[1])
                   /\ \A j, k \in 1..Len(calls[p]) :
                          (/\ j < k
                           /\ calls[p][j].secret = getSecretName(config, config.services[2].name))
                          => calls[p][k].secret # getSecretName(config, config.services[1].name)

\* C12 witness: cleanupVersions('all') has ended after a call on the first
\* secret (its listing or a destroy request) failed, and the second secret
\* was attended to.
FanOutPastFailure ==
    \E p \in Procs :
        /\ opName[p] = "cleanupVersions"
        /\ serviceName[p] = "all"
        /\ pc[p] = "done"
        /\ \E j \in 1..Len(CallsOn(p, 1)) : ~CallsOn(p, 1)[j].ok
        /\ CallsOn(p, 2) # <<>>

\* A destroy request on the first secret failed and the second secret was
\* listed all the same.
FanOutPastDestroyFailure ==
    \E p \in Procs :
        /\ opName[p] = "cleanupVersions"
        /\ serviceName[p] = "all"
        /\ pc[p] = "done"
        /\ \E j \in 1..Len(CallsOn(p, 1)) :
               IsDestroyCall(CallsOn(p, 1)[j]) /\ ~CallsOn(p, 1)[j].ok
        /\ CallsOn(p, 2) # <<>>

AllCallsOk(p) == \A i \in 1..Len(calls[p]) : calls[p][i].ok

\* An upload of one configured service has returned, every store call of
\* it (its listing and destroy requests included) having succeeded.
UploadReturnedClean(p) ==
    /\ pc[p] = "done"
    /\ opName[p] = "uploadEnv"
    /\ serviceName[p] # "all"
    /\ result[p] = "resolved"
    /\ AllCallsOk(p)

StillLive(v) == StateInStore(v.name) \in LiveStates

\* C13 - Count bound: with the policy enabled and maxVersions = N >= 1,
\* when an upload to a secret returns after a cleanup in which every
\* request succeeded, the secret has at most N live versions; the listed
\* live versions that survive are among the N newest of the listing, and
\* are exactly those when the age rule is off.
CountBound ==
    \A p \in Procs :
        (UploadReturnedClean(p) /\ ConfiguredEnabled /\ Policy.maxVersions >= 1) =>
            /\ Cardinality(LiveOf(store[getSecretName(config, serviceName[p])].versions))
                   <= Policy.maxVersions
            /\ \A v \in LiveOf(versions[p]) :
                   /\ StillLive(v) => NewestFirstIndex(versions[p], v) < Policy.maxVersions
                   /\ (Policy.maxAgeDays = 0 /\ NewestFirstIndex(versions[p], v) < Policy.maxVersions)
                      => StillLive(v)

\* C13 witness: an upload has returned after its cleanup destroyed a
\* version on the count rule alone.
CountRuleDestroyed ==
    \E p \in Procs :
        /\ UploadReturnedClean(p)
        /\ ConfiguredEnabled
        /\ Policy.maxVersions >= 1
        /\ Policy.maxAgeDays = 0
        /\ DestroyCalls(p) # <<>>

\* The cutoff of the age rule: now - maxAgeDays days, to the millisecond
AgeCutoff == [seconds |-> now - Policy.maxAgeDays * DaySeconds, millis |-> nowMillis]

\* createdAt < cutoff, createdAt being the version's createTime (seconds, nanos)
CreatedBeforeCutoff(v) ==
    \/ v.seconds < AgeCutoff.seconds
    \/ v.seconds = AgeCutoff.seconds /\ v.nanos < AgeCutoff.millis * 1000000

CreatedAtCutoff(v) ==
    v.seconds = AgeCutoff.seconds /\ v.nanos = AgeCutoff.millis * 1000000

\* The same with createdAt cut down to whole seconds (createTime.seconds)
SecondBeforeCutoff(v) ==
    \/ v.seconds < AgeCutoff.seconds
    \/ v.seconds = AgeCutoff.seconds /\ 0 < AgeCutoff.millis

SecondAtCutoff(v) == v.seconds = AgeCutoff.seconds /\ AgeCutoff.millis = 0

\* A manual cleanup of one service has returned, the listing and every
\* destroy request having succeeded.
CleanupReturnedClean(p) ==
    /\ pc[p] = "done"
    /\ opName[p] = "cleanupVersions"
    /\ serviceName[p] # "all"
    /\ calls[p] # <<>>
    /\ AllCallsOk(p)

Marked(p, v) == v.name \in Names(markedVersions[p])

AgeRuleFloorKept ==
    \E p \in Procs :
        /\ CleanupReturnedClean(p)
        /\ Policy.maxAgeDays > 0
        /\ Cardinality(LiveOf(versions[p])) >= 2
        /\ \A v \in LiveOf(versions[p]) : SecondBeforeCutoff(v)
        /\ DestroyCalls(p) # <<>>

\* The documented defaults (README, DeletePolicy @default)
DocumentedDefaults == [maxVersions |-> 10, maxAgeDays |-> 30, enabled |-> TRUE]

\* A manual cleanup of one configured service has returned
CleanupReturned(p) ==
    /\ pc[p] = "done"
    /\ opName[p] = "cleanupVersions"
    /\ serviceName[p] # "all"

\* The versions a cleanup under policy q marks in the listing of caller p
CandidatesUnder(p, q) ==
    CountCandidates(versions[p], q) \cup AgeCandidates(versions[p], now, q)

\* C15 - Default policy: a manager constructed from a configuration file
\* without a deletePolicy entry runs its cleanups (the listing is
\* requested) and marks the live versions beyond the 10 newest together
\* with those created more than 30 days ago.
DefaultPolicyApplies ==
    (manager = "constructed" /\ configFile.deletePolicy = {}) =>
        \A p \in Procs :
            /\ CleanupReturned(p) => calls[p] # <<>>
            /\ Len(versions[p]) > 1 =>
                   Range(markedVersions[p]) = CandidatesUnder(p, DocumentedDefaults)

\* C15 witness: without a deletePolicy entry a cleanup has returned having
\* destroyed a recent version beyond the 10 newest (count rule alone) and
\* a version more than 30 days old.
DefaultsDestroyed ==
    /\ configFile.deletePolicy = {}
    /\ \E p \in Procs :
           /\ CleanupReturned(p)
           /\ \E v \in LiveOf(versions[p]) :
                  /\ ~StillLive(v)
                  /\ NewestFirstIndex(versions[p], v) >= 10
                  /\ v.seconds >= now - 30 * DaySeconds
           /\ \E v \in LiveOf(versions[p]) :
                  ~StillLive(v) /\ v.seconds < now - 30 * DaySeconds

\* Without a deletePolicy entry a cleanup has destroyed a version more than
\* 30 days old among the 10 newest (age rule alone).
DefaultsDestroyedByAge ==
    /\ configFile.deletePolicy = {}
    /\ \E p \in Procs :
           /\ CleanupReturned(p)
           /\ \E v \in LiveOf(versions[p]) :
                  /\ ~StillLive(v)
                  /\ NewestFirstIndex(versions[p], v) < 10
                  /\ v.seconds < now - 30 * DaySeconds

\* The configured policy with each omitted field at its documented default
WithDefaults(q) ==
    [f \in PolicyFields |-> IF f \in DOMAIN q THEN q[f] ELSE DocumentedDefaults[f]]

FilePolicyOmits(f) == \E q \in configFile.deletePolicy : q[f].kind = "undefined"

\* Omitted enabled behaves as true: the cleanup requests the listing.
OmittedEnabledRuns ==
    (manager = "constructed" /\ FilePolicyOmits("enabled")) =>
        \A p \in Procs : CleanupReturned(p) => calls[p] # <<>>

\* Omitted maxVersions behaves as 10, omitted maxAgeDays as 30: a cleanup
\* that runs marks what the policy completed by the defaults marks.
OmittedLimitsDefault ==
    (/\ manager = "constructed"
     /\ FilePolicyOmits("maxVersions") \/ FilePolicyOmits("maxAgeDays")) =>
        \A p \in Procs :
            Len(versions[p]) > 1 =>
                Range(markedVersions[p]) = CandidatesUnder(p, WithDefaults(Policy))

\* C16 - Per-field defaults: with a deletePolicy entry that omits a field,
\* cleanup behaves as under the policy completed by the documented
\* defaults (enabled true, maxVersions 10, maxAgeDays 30).
PerFieldDefaults == OmittedEnabledRuns /\ OmittedLimitsDefault

\* A limit given in the file that is negative or not an integer
BadLimit(v) ==
    v.kind # "undefined" /\ ~(v.kind = "number" /\ v.twice >= 0 /\ v.twice % 2 = 0)

\* An enabled given in the file that is not a boolean
BadFlag(v) == v.kind \notin {"undefined", "boolean"}

BadPolicyInFile ==
    \E q \in configFile.deletePolicy :
        BadLimit(q.maxVersions) \/ BadLimit(q.maxAgeDays) \/ BadFlag(q.enabled)

\* C17 - Policy validation at the boundary: constructing the manager fails
\* exactly when the file's deletePolicy gives a maxVersions or maxAgeDays
\* that is negative or not an integer, or an enabled that is not a boolean;
\* with such a file no operation ever starts and no store call is made, and
\* every limit a running cleanup reads is a non-negative integer.
PolicyValidated ==
    /\ manager # "none" => (manager = "failed" <=> BadPolicyInFile)
    /\ BadPolicyInFile => \A p \in Procs : pc[p] = "idle" /\ calls[p] = <<>>
    /\ \A p \in Procs :
           pc[p] # "idle" =>
               \A f \in DOMAIN Policy \cap {"maxVersions", "maxAgeDays"} :
                   Policy[f] \in Nat

\* C17 witness: construction failed on a file whose only fault is a
\* negative maxVersions.
RejectedNegativeLimit ==
    /\ manager = "failed"
    /\ \E q \in configFile.deletePolicy :
           /\ q.maxVersions.kind = "number" /\ q.maxVersions.twice < 0
           /\ ~BadLimit(q.maxAgeDays)
           /\ ~BadFlag(q.enabled)

\* Construction failed on a file whose only fault is maxAgeDays = 1.5
RejectedFractionalLimit ==
    /\ manager = "failed"
    /\ \E q \in configFile.deletePolicy :
           /\ q.maxAgeDays.kind = "number" /\ q.maxAgeDays.twice = 3
           /\ ~BadLimit(q.maxVersions)
           /\ ~BadFlag(q.enabled)

\* Construction failed on a file whose only fault is a non-boolean enabled
RejectedNonBooleanFlag ==
    /\ manager = "failed"
    /\ \E q \in configFile.deletePolicy :
           /\ BadFlag(q.enabled)
           /\ ~BadLimit(q.maxVersions)
           /\ ~BadLimit(q.maxAgeDays)

\* C18 - loadConfig with an existing .env file: when the file was there at
\* the call, no Secret Manager client is created, accessSecretVersion is
\* neither called nor awaited, the file is not written, and every
\* assignment of the file is loaded into process.env.
ExistingFileOnlyLoaded ==
    (loader.pc # "idle" /\ loader.existed) =>
        /\ ~loader.clientCreated
        /\ loader.accessCalls = 0
        /\ loader.writes = 0
        /\ loader.pc = "done"
        /\ loader.response = "none"
        /\ \A content \in dotEnvFile :
               \A v \in VarNames : content[v] # Unset => processEnv[v] # Unset

\* C18 witness: loadConfig has resolved from an existing file that sets ENV.
LoadedFromExistingFile ==
    /\ loader.pc = "done"
    /\ loader.existed
    /\ loader.result = "resolved"
    /\ \E content \in dotEnvFile : content["ENV"] = "STG" /\ processEnv["ENV"] = "STG"

\* The .env file was obtained: it was there at the call, or it has been
\* fetched and written.
FileObtained == loader.pc = "done" /\ (loader.existed \/ loader.writes > 0)

NotSet(v) == processEnv[v] \in {Unset, ""}

MissingRequired == SelectSeq(loader.requiredEnvVars, NotSet)

\* C19 (as claimed) - loadConfig validation: the .env file being obtained,
\* loadConfig resolves exactly when ENV and every required variable are set
\* to a non-empty value; with ENV missing it rejects with 'ENV is not set',
\* and with required variables missing it rejects naming each of them.
LoadValidation ==
    FileObtained =>
        /\ loader.result = "resolved" <=> (~NotSet("ENV") /\ MissingRequired = <<>>)
        /\ NotSet("ENV") =>
               /\ loader.result = "rejected"
               /\ loader.error = Error("ENV is not set", <<>>)
        /\ (~NotSet("ENV") /\ MissingRequired # <<>>) =>
               /\ loader.result = "rejected"
               /\ loader.error =
                      Error("Missing required environment variables", MissingRequired)

\* C19 (amended) - the same, except that with ENV missing the error is
\* 'ENV is not set' only when the file was there at the call; when the file
\* was fetched and written and ENV is still missing, loadConfig rejects
\* with 'Failed to initialize config for <serviceName> from Secret Manager'.
LoadValidationByPath ==
    FileObtained =>
        /\ loader.result = "resolved" <=> (~NotSet("ENV") /\ MissingRequired = <<>>)
        /\ NotSet("ENV") =>
               /\ loader.result = "rejected"
               /\ loader.error =
                      IF loader.existed
                      THEN Error("ENV is not set", <<>>)
                      ELSE Error("Failed to initialize config for {serviceName} from Secret Manager",
                                 <<>>)
        /\ (~NotSet("ENV") /\ MissingRequired # <<>>) =>
               /\ loader.result = "rejected"
               /\ loader.error =
                      Error("Missing required environment variables", MissingRequired)

\* C19 witness: the file was fetched and written, ENV is set, and two
\* required variables are missing, one absent and one empty.
FetchedWithTwoMissing ==
    /\ FileObtained
    /\ ~loader.existed
    /\ ~NotSet("ENV")
    /\ Len(MissingRequired) = 2
    /\ \E i, j \in 1..2 :
           processEnv[MissingRequired[i]] = Unset /\ processEnv[MissingRequired[j]] = ""

\* The file was fetched and written and ENV is still missing.
FetchedWithoutEnv == FileObtained /\ ~loader.existed /\ NotSet("ENV")

\* The file was there at the call and ENV is missing.
ExistingWithoutEnv == FileObtained /\ loader.existed /\ NotSet("ENV")

\* C20 - loadConfig fetch failure: with no .env file at the call, when
\* accessSecretVersion rejects or answers without payload data, loadConfig
\* rejects with 'Failed to initialize config for <serviceName> from Secret
\* Manager', nothing is written and there is still no .env file.
FetchFailure ==
    (/\ loader.pc = "done"
     /\ ~loader.existed
     /\ loader.response \in {"rejected", "no data"}) =>
        /\ loader.result = "rejected"
        /\ loader.error.message =
               "Failed to initialize config for {serviceName} from Secret Manager"
        /\ loader.writes = 0
        /\ dotEnvFile = {}

\* C20 witness: accessSecretVersion answered with a version that carries
\* no payload data and loadConfig has ended.
FetchAnsweredNoData ==
    /\ loader.pc = "done"
    /\ ~loader.existed
    /\ loader.clientCreated
    /\ loader.response = "no data"

\* accessSecretVersion rejected and loadConfig has ended.
FetchRejected ==
    /\ loader.pc = "done"
    /\ ~loader.existed
    /\ loader.clientCreated
    /\ loader.response = "rejected"

\* C21 - Download with --set copies the downloaded file: when the operation
\* "download" with --set has resolved for a service, the file at the
\* service's target path has the content of the file at its env path, also
\* when an upload to the same secret completed in between.
SetCopiesDownload ==
    \A p \in Procs :
        (opName[p] = "download --set" /\ pc[p] = "done" /\ result[p] = "resolved")
        => \A i \in 1..Len(config.services) :
               (serviceName[p] \in {"all", config.services[i].name})
               => files[config.services[i].targetPath] = files[config.services[i].envPath]

\* C21: a download with --set that resolved with no version added to the
\* secret between its two accessSecretVersion calls
SetAfterQuietDownload ==
    \E p \in Procs :
        /\ opName[p] = "download --set" /\ pc[p] = "done" /\ result[p] = "resolved"
        /\ Len(calls[p]) = 2
        /\ calls[p][1].version = calls[p][2].version
        /\ files["web/app/.env"] = files[".environments/.app.{env}.env"]

\* The newest-first indices (0 = newest) of the listing of caller p whose
\* version satisfies Test
IndicesWhere(p, Test(_)) == {i \in 0..(Len(versions[p]) - 1) : Test(versions[p][i + 1])}

InDestroyList(p, v) == v.name \in Names(versionsToDestroy[p])

\* The listing of the worked example: 12 live versions, the one at
\* newest-first index i created i days before now
ExampleListing(p) ==
    /\ Len(versions[p]) = 12
    /\ \A i \in 0..11 : /\ versions[p][i + 1].state \in LiveStates
                        /\ versions[p][i + 1].seconds = now - i * DaySeconds
    /\ Policy = [maxVersions |-> 5, maxAgeDays |-> 3, enabled |-> TRUE]

ListedState(p, secret, version) ==
    {v.state : v \in {w \in Range(versions[p]) : w.name = <<secret, version>>}}

\* C23 - State filtering: a destroy request is only ever issued for a
\* version whose listed state is ENABLED or DISABLED; versions listed in
\* any other state are never in the destroy list, take no place among the
\* maxVersions newest (a live version among the maxVersions newest live
\* ones is marked only when the age rule marks it), and do not count in
\* the size the keep-one step compares the marked versions with.
StateFiltering ==
    \A p \in Procs :
        /\ \A i \in 1..Len(versionsToDestroy[p]) :
               versionsToDestroy[p][i].state \in LiveStates
        /\ \A i \in 1..Len(calls[p]) :
               IsDestroyCall(calls[p][i]) =>
                   /\ ListedState(p, calls[p][i].secret, calls[p][i].version) # {}
                   /\ ListedState(p, calls[p][i].secret, calls[p][i].version) \subseteq LiveStates
        /\ Len(versions[p]) > 1 =>
               /\ \A v \in LiveOf(versions[p]) :
                      (/\ Policy.maxVersions > 0
                       /\ NewestFirstIndex(versions[p], v) < Policy.maxVersions
                       /\ v \notin AgeCandidates(versions[p], now, Policy))
                      => v.name \notin Names(markedVersions[p])
               /\ Len(versionsToDestroy[p]) =
                      IF /\ Len(markedVersions[p]) > 0
                         /\ Len(markedVersions[p]) >= Cardinality(LiveOf(versions[p]))
                      THEN Len(markedVersions[p]) - 1
                      ELSE Len(markedVersions[p])

\* C23 witness: the listing of a cleanup that has returned holds a
\* DESTROYED version that is newer than its live versions, the count rule
\* is on, and a live version was destroyed on request.
DestroyedVersionSkipped ==
    \E p \in Procs :
        /\ pc[p] = "done"
        /\ Policy.maxVersions > 0
        /\ \E v \in Range(versions[p]) :
               /\ v.state = "DESTROYED"
               /\ \A w \in LiveOf(versions[p]) : w.seconds < v.seconds
        /\ Len(DestroyCalls(p)) >= 1
        /\ AllCallsOk(p)

\* C23: the same with a version listed in an unknown state
UnknownVersionSkipped ==
    \E p \in Procs :
        /\ pc[p] = "done"
        /\ Policy.maxVersions > 0
        /\ \E v \in Range(versions[p]) :
               /\ v.state = "STATE_UNSPECIFIED"
               /\ \A w \in LiveOf(versions[p]) : w.seconds < v.seconds
        /\ Len(DestroyCalls(p)) >= 1
        /\ AllCallsOk(p)

ListCalls(p) == SelectSeq(calls[p], IsListCall)

IsCreateCall(c) == c.api = "createSecret"

\* The operation of caller p has ended and ran a cleanup of the secret with
\* the policy enabled: a manual cleanup, or an upload whose version was
\* added to the existing secret.
CleanupRan(p) ==
    /\ pc[p] = "done"
    /\ PolicyEnabled(Policy)
    /\ \/ opName[p] = "cleanupVersions" /\ result[p] = "resolved"
       \/ /\ opName[p] = "uploadEnv"
          /\ \E i \in 1..Len(calls[p]) : IsAddCall(calls[p][i]) /\ calls[p][i].ok
          /\ \A i \in 1..Len(calls[p]) : ~IsCreateCall(calls[p][i])

\* C24 - Single snapshot: a cleanup (policy enabled) performs exactly one
\* list-versions call, before any of its destroy requests, and every
\* destroy request it issues names a version of that listing; a version
\* added to the secret after the listing gets no destroy request from
\* that cleanup.
SingleSnapshot ==
    \A p \in Procs :
        /\ Len(ListCalls(p)) <= 1
        /\ CleanupRan(p) => Len(ListCalls(p)) = 1
        /\ \A i \in 1..Len(calls[p]) :
               IsDestroyCall(calls[p][i]) =>
                   /\ \E j \in 1..(i - 1) : IsListCall(calls[p][j]) /\ calls[p][j].ok
                   /\ <<calls[p][i].secret, calls[p][i].version>> \in Names(versions[p])

\* C24 witness: a cleanup has returned after a successful destroy request
\* while the secret holds a version that was added after its listing.
AddedAfterListing ==
    \E p \in Procs :
        /\ pc[p] = "done"
        /\ \E i \in 1..Len(calls[p]) : IsDestroyCall(calls[p][i]) /\ calls[p][i].ok
        /\ \E v \in Range(store[<<"app-env-vars", "_ENV_FILE">>].versions) :
               v.name \notin Names(versions[p]) /\ v.state = "ENABLED"

\* C25 - Services can be added later: for a valid configuration file,
\* whatever its services list (empty as the template leaves it, or after
\* any additions and removals), --add-service with an unused name succeeds
\* and the file then holds that service.
AddServiceSucceeds ==
    \A p \in Procs :
        (opName[p] = "add-service" /\ pc[p] = "done" /\ validateConfig(configFile))
        => /\ result[p] = "resolved"
           /\ Includes(configFile, serviceName[p])

\* C25: --add-service on a file that holds a service already has added
\* the new one
AddedToExistingServices ==
    \E p \in Procs :
        /\ opName[p] = "add-service" /\ pc[p] = "done" /\ result[p] = "resolved"
        /\ Len(configFile.services) >= 2
        /\ Includes(configFile, serviceName[p])

\* C25: --add-service has failed on a valid file with an empty services
\* list that is not the template's
AddFailedAfterRemoval ==
    \E p \in Procs :
        /\ opName[p] = "add-service" /\ pc[p] = "done" /\ result[p] = "rejected"
        /\ validateConfig(configFile)
        /\ configFile.services = <<>>
        /\ configFile # TemplateFile


\* The version the most recent successful upload created: the last one of
\* a secret that only uploads have written to
LastUploaded == store[AppSecret].versions[Len(store[AppSecret].versions)]

\* C26 - Latest payload stays retrievable: after any sequence of uploadEnv
\* and cleanupVersions calls on one service, with time passing between the
\* calls, the version created by the most recent successful upload is
\* still live, and a download that succeeds writes the content of that
\* upload to the env path.
LatestStaysRetrievable ==
    Len(store[AppSecret].versions) > 0 =>
        /\ LastUploaded.state \in LiveStates
        /\ \A p \in Procs :
               (opName[p] = "download" /\ pc[p] = "done" /\ result[p] = "resolved")
               => files[".environments/.app.{env}.env"] = LastUploaded.data

\* C26: a download has written the content of the most recent upload, an
\* older version with another content having been destroyed
LatestDownloaded ==
    \E p \in Procs :
        /\ opName[p] = "download" /\ pc[p] = "done" /\ result[p] = "resolved"
        /\ Len(store[AppSecret].versions) >= 2
        /\ store[AppSecret].versions[1].state = "DESTROYED"
        /\ store[AppSecret].versions[1].data # LastUploaded.data
        /\ files[".environments/.app.{env}.env"] = LastUploaded.data

\* C27 - At least one live version survives under concurrency: a secret
\* that held a live version never gets to a state in which all of its
\* versions are destroyed, whatever the interleaving of the cleanups and
\* uploads of two invocations.  (Every version of the secret starts
\* ENABLED, and only destroy requests take a version out of the live set.)
LiveVersionSurvives ==
    Len(store[AppSecret].versions) > 0 => LiveOf(store[AppSecret].versions) # {}

\* C27: two cleanups of the same secret, their listings taken within the
\* same second, have both returned, each having destroyed a version the
\* other one kept
CleanupsCrossed ==
    /\ now = 2 * DaySeconds
    /\ \A p \in Procs : pc[p] = "done" /\ opName[p] = "cleanupVersions"
    /\ \A p \in Procs : Len(DestroyCalls(p)) = 1 /\ AllCallsOk(p)
    /\ DestroyCalls(1)[1].version # DestroyCalls(2)[1].version
    /\ LiveOf(store[AppSecret].versions) = {}

\* The versions the upload of caller p has added
OwnVersions(p) ==
    {<<calls[p][i].secret, calls[p][i].version>> :
        i \in {j \in 1..Len(calls[p]) : IsAddCall(calls[p][j]) /\ calls[p][j].ok}}

\* The listing of the post-upload cleanup of caller p arrives in this step
ListingArrives(p) ==
    /\ opName[p] = "uploadEnv"
    /\ pc[p] = "listSecretVersions"
    /\ Len(versions'[p]) > 0

\* C28 - The automatic post-upload cleanup never destroys the version the
\* same upload just added: when the listing arrives with that version as
\* its newest entry and created at the present instant (age zero), the
\* destroy list computed from it does not hold that version, for every
\* policy and every prior history.
OwnVersionKept ==
    [][\A p \in Procs :
          (/\ ListingArrives(p)
           /\ versions'[p][1].name \in OwnVersions(p)
           /\ versions'[p][1].seconds = now
           /\ versions'[p][1].nanos = nowMillis * 1000000)
          => versions'[p][1].name \notin Names(versionsToDestroy'[p])]_vars

\* C28 witness: an upload has ended, its cleanup destroyed every older
\* version on request, and the version it added is the live one.
OwnVersionOutlived ==
    \E p \in Procs :
        /\ opName[p] = "uploadEnv" /\ pc[p] = "done"
        /\ Len(DestroyCalls(p)) >= 1 /\ AllCallsOk(p)
        /\ versions[p][1].name \in OwnVersions(p)
        /\ \A v \in Range(store[AppSecret].versions) :
               v.state = "ENABLED" <=> v.name \in OwnVersions(p)

\* C28: the listing of a post-upload cleanup held a newer version of
\* another upload, and the cleanup destroyed the version its own upload
\* had added
OwnVersionNotNewest ==
    \E p \in Procs :
        /\ opName[p] = "uploadEnv" /\ pc[p] = "done"
        /\ versions[p] # <<>>
        /\ versions[p][1].name \notin OwnVersions(p)
        /\ \E i \in 1..Len(calls[p]) :
               /\ IsDestroyCall(calls[p][i]) /\ calls[p][i].ok
               /\ <<calls[p][i].secret, calls[p][i].version>> \in OwnVersions(p)

\* getSecret answered NOT_FOUND to the upload of caller p
SawNotFound(p) ==
    /\ opName[p] = "uploadEnv"
    /\ Len(calls[p]) > 0
    /\ calls[p][1].api = "getSecret" /\ ~calls[p][1].ok

\* C29 - Concurrent first uploads: when two uploads for the same service
\* both see NOT_FOUND from getSecret, both complete successfully and the
\* secret ends with exactly two versions; no upload throws and the secret
\* is not left created without a version.
ConcurrentFirstUploads ==
    (\A p \in Procs : SawNotFound(p) /\ pc[p] = "done")
    => /\ \A p \in Procs : result[p] = "resolved"
       /\ Len(store[AppSecret].versions) = 2

\* C29: one of two concurrent first uploads has created the secret and
\* added its version, the other one was refused by createSecret and threw
SecondCreateRefused ==
    /\ \A p \in Procs : SawNotFound(p) /\ pc[p] = "done"
    /\ \E p \in Procs : result[p] = "rejected" /\ ~calls[p][Len(calls[p])].ok
                        /\ IsCreateCall(calls[p][Len(calls[p])])
    /\ \E p \in Procs : result[p] = "resolved"
    /\ Len(store[AppSecret].versions) = 1

\* Position of the service whose secret a call names, in configuration order
ServiceIndex(c) ==
    CHOOSE k \in 1..Len(config.services) :
        getSecretName(config, config.services[k].name) = c.secret

\* The upload of service k has added its version, and the version is
\* still stored
Uploaded(p, k) ==
    \E i \in 1..Len(calls[p]) :
        /\ IsAddCall(calls[p][i]) /\ calls[p][i].ok /\ ServiceIndex(calls[p][i]) = k
        /\ <<calls[p][i].secret, calls[p][i].version>>
               \in Names(store[calls[p][i].secret].versions)

\* The upload of service k threw: its env file is missing and no request
\* was made for it, or the last request of the operation was made for it,
\* was not a request of the cleanup, and failed
UploadThrew(p, k) ==
    \/ /\ files[config.services[k].envPath] = NoFile
       /\ \A i \in 1..Len(calls[p]) : ServiceIndex(calls[p][i]) # k
    \/ /\ Len(calls[p]) > 0
       /\ ServiceIndex(calls[p][Len(calls[p])]) = k
       /\ ~calls[p][Len(calls[p])].ok
       /\ ~IsListCall(calls[p][Len(calls[p])])
       /\ ~IsDestroyCall(calls[p][Len(calls[p])])

\* C30 - uploadEnv('all') is fail-fast without rollback: the services are
\* uploaded one after the other in configuration order; when it resolves,
\* every service has been uploaded; when it rejects, the upload of one
\* service threw, no store request was made for any later service, and
\* the versions added for the earlier services are still stored.
FailFastNoRollback ==
    \A p \in Procs :
        (opName[p] = "uploadEnv" /\ serviceName[p] = "all") =>
            /\ \A i, j \in 1..Len(calls[p]) :
                   i <= j => ServiceIndex(calls[p][i]) <= ServiceIndex(calls[p][j])
            /\ (pc[p] = "done" /\ result[p] = "resolved")
               => \A k \in 1..Len(config.services) : Uploaded(p, k)
            /\ (pc[p] = "done" /\ result[p] = "rejected")
               => \E k \in 1..Len(config.services) :
                      /\ UploadThrew(p, k)
                      /\ \A i \in 1..Len(calls[p]) : ServiceIndex(calls[p][i]) <= k
                      /\ \A j \in 1..(k - 1) : Uploaded(p, j)

\* C30 witness: uploadEnv('all') has rejected because the env file of the
\* second service is missing, after the version of the first service was
\* added; that version is stored and no request names the second secret.
LaterServiceMissing ==
    \E p \in Procs :
        /\ opName[p] = "uploadEnv" /\ serviceName[p] = "all"
        /\ pc[p] = "done" /\ result[p] = "rejected"
        /\ files[config.services[2].envPath] = NoFile
        /\ Uploaded(p, 1)
        /\ \A i \in 1..Len(calls[p]) : ServiceIndex(calls[p][i]) = 1

\* C30: uploadEnv('all') has rejected on the env file of the first
\* service, with no store request at all
FirstServiceMissing ==
    \E p \in Procs :
        /\ opName[p] = "uploadEnv" /\ serviceName[p] = "all"
        /\ pc[p] = "done" /\ result[p] = "rejected"
        /\ calls[p] = <<>>
        /\ files[config.services[2].envPath] # NoFile

====
